---- MODULE Spec2Model ----
(***************************************************************************)
(* A model of namespace.NameSpace (src/namespace/namespace.py): the path   *)
(* tree, the per-node positive/negative space masks, the registry of       *)
(* virtual spaces with their pending lists, the rule interpreter and the   *)
(* two-pass space_update.                                                  *)
(*                                                                         *)
(* A path string is held as the sequence of its '/'-separated parts, as    *)
(* str.split('/') returns them: "" is <<"">>, "/" is <<"","">>, "/a/b" is  *)
(* <<"","a","b">>, the relative string ".*" is <<".*">>.  A mask is held   *)
(* as the set of the bit positions that are set in the Python integer.     *)
(***************************************************************************)
EXTENDS Integers, Sequences, FiniteSets, TLC

VARIABLES counter, name_index_map, vs, tree, processing_rules, hist, other

\* hist is the log of the calls made so far, each with its arguments and
\* its outcome; counter, name_index_map, tree and processing_rules are the
\* fields of the instance.  vs is the list Node.vs: a class attribute that
\* NameSpace.__init__ binds to self.vs, so that every instance of the
\* process holds the same list.  other holds the counter, name_index_map,
\* tree and processing_rules of a second instance of the process.
vars == <<counter, name_index_map, vs, tree, processing_rules, hist, other>>

(***************************************************************************)
(* Bounds of the model.                                                    *)
(***************************************************************************)
MaxOps == 5

\* the number of declarations tried to correct a configuration
MaxFix == 2

\* the number of rule declarations made when the translation of the
\* trailing position is examined
MaxRules == 3

(***************************************************************************)
(* Strings and paths.                                                      *)
(***************************************************************************)
\* the part alphabet of the model, in the order of Python's str comparison
Alphabet == <<"", "*", "**", ".", ".*", "a", "b">>

TagRank(t) == CHOOSE i \in 1..Len(Alphabet) : Alphabet[i] = t

recursive_pref == "recursive "
recursive_regex == ".*"
single_rec_block == "*"
double_rec_block == "**"

RootPath == <<"">>

Range(s) == {s[i] : i \in 1..Len(s)}

Front(s) == SubSeq(s, 1, Len(s) - 1)

Last(s) == s[Len(s)]

\* pth[0] == '/'
StartsWithSlash(pth) == Len(pth) >= 2 /\ pth[1] = ""

\* os.path.join(path, '.*')
JoinRec(path) ==
    IF Last(path) = "" THEN [path EXCEPT ![Len(path)] = recursive_regex]
    ELSE Append(path, recursive_regex)

RECURSIVE RStripSlash(_)
\* head.rstrip('/') unless head consists of slashes only
RStripSlash(head) ==
    IF \A i \in 1..Len(head) : head[i] = "" THEN head
    ELSE IF Last(head) = "" THEN RStripSlash(Front(head))
    ELSE head

\* os.path.split(pth)[0]
SplitHead(pth) ==
    IF Len(pth) = 1 THEN <<"">>
    ELSE RStripSlash([pth EXCEPT ![Len(pth)] = ""])

(***************************************************************************)
(* SpaceBitmask and Node.                                                  *)
(***************************************************************************)
SpaceBitmask == [space_mask |-> {}, by_rule_mask |-> {}]

\* the mask is written only under by_rule
mask_set_only_by_rule(mask, space_id, by_rule) ==
    IF by_rule
    THEN [space_mask   |-> mask.space_mask \cup {space_id},
          by_rule_mask |-> mask.by_rule_mask \cup {space_id}]
    ELSE mask

mask_set(mask, space_id, by_rule) ==
    [space_mask   |-> mask.space_mask \cup {space_id},
     by_rule_mask |-> IF by_rule THEN mask.by_rule_mask \cup {space_id}
                      ELSE mask.by_rule_mask]

is_space_set(mask, space_id) == space_id \in mask.space_mask

was_set_by_rule(mask, space_id) == space_id \in mask.by_rule_mask

\* a node of the tree: the tag of the treelib node, with the fields of its
\* data, a Node
Node(tag) == [tag             |-> tag,
             positive_mask   |-> SpaceBitmask,
             negative_mask   |-> SpaceBitmask,
             created_by_rule |-> FALSE]

\* the test of a single mask, as before the negative mask was introduced
spaces_mask_test_positive_only(node, space_id) ==
    is_space_set(node.positive_mask, space_id)

spaces_mask_test(node, space_id) ==
    /\ is_space_set(node.positive_mask, space_id)
    /\ ~is_space_set(node.negative_mask, space_id)

\* an add withdraws the exclusion of the space from the node
spaces_mask_set_last_wins(node, space_id, by_rule) ==
    [node EXCEPT !.positive_mask = mask_set(@, space_id, by_rule),
                 !.negative_mask.space_mask = @ \ {space_id}]

spaces_mask_set(node, space_id, by_rule) ==
    [node EXCEPT !.positive_mask = mask_set(@, space_id, by_rule)]

\* the exclusion is recorded in the provenance mask only
spaces_mask_unset_provenance_only(node, space_id, by_rule) ==
    [node EXCEPT !.negative_mask.by_rule_mask =
                    IF by_rule THEN @ \cup {space_id} ELSE @]

spaces_mask_unset(node, space_id, by_rule) ==
    [node EXCEPT !.negative_mask = mask_set(@, space_id, by_rule)]

was_added_by_rule(node, space_id) ==
    IF is_space_set(node.negative_mask, space_id)
    THEN was_set_by_rule(node.negative_mask, space_id)
    ELSE was_set_by_rule(node.positive_mask, space_id)

VirtualSpace(name, index) ==
    [name |-> name, index |-> index, nodes |-> {},
     nodes_add |-> <<>>, nodes_sub |-> <<>>,
     subspaces_add |-> <<>>, subspaces_sub |-> <<>>]

(***************************************************************************)
(* The tree: a function from the stored path of a node to the node.  The   *)
(* parent of a node is the node of the path without its last part.         *)
(***************************************************************************)
children(t, nid) ==
    {c \in DOMAIN t : Len(c) = Len(nid) + 1 /\ Front(c) = nid}

siblings(t, nid) ==
    IF nid = RootPath THEN {}
    ELSE children(t, Front(nid)) \ {nid}

\* the stored path of the node _node_for_path ends at: the first part of
\* the string is taken as the root whatever it is
NodeKey(pth) == <<"">> \o Tail(pth)

Prefixes(k) == {SubSeq(k, 1, i) : i \in 1..Len(k)}

\* the tree after _node_for_path(pth, is_creation)
_node_for_path(t, pth, is_creation, pr) ==
    LET k  == NodeKey(pth)
        t1 == IF pth \in DOMAIN t THEN t
              ELSE [p \in DOMAIN t \cup Prefixes(k) |->
                      IF p \in DOMAIN t THEN t[p] ELSE Node(pth[Len(p)])]
    IN  IF is_creation /\ pr
        THEN [t1 EXCEPT ![k].created_by_rule = TRUE]
        ELSE t1

(***************************************************************************)
(* NameSpace.space                                                         *)
(***************************************************************************)
\* the registry after space(name, create=True)
space_create(reg, name) ==
    IF name \in DOMAIN reg.name_index_map THEN reg
    ELSE [counter        |-> reg.counter + 1,
          name_index_map |-> [n \in DOMAIN reg.name_index_map \cup {name} |->
                                IF n = name THEN reg.counter
                                ELSE reg.name_index_map[n]],
          vs             |-> Append(reg.vs, VirtualSpace(name, reg.counter))]

\* space(name, create=False) for a name held as its parts; -1 stands for
\* None.  The names of the spaces of the model hold no '/'.
space_lookup(nim, name) ==
    IF Len(name) = 1 /\ name[1] \in DOMAIN nim THEN nim[name[1]] ELSE -1

(***************************************************************************)
(* RuleInterpreter.  A rule string is held as its parts; the keyword       *)
(* 'recursive ' stays in the first part, as in "recursive /a/b" =          *)
(* <<"recursive ", "a", "b">> and "recursive d" = <<"recursive d">>.       *)
(***************************************************************************)
\* first parts that start with the keyword, with what removeprefix leaves
PrefixedParts ==
    ("recursive " :> "") @@ ("recursive k" :> "k") @@
    ("recursive d" :> "d") @@ ("recursive e" :> "e")

\* path.startswith(recursive_pref)
startswith_recursive(path) == path[1] \in DOMAIN PrefixedParts

\* path.removeprefix(recursive_pref)
removeprefix_recursive(path) ==
    IF startswith_recursive(path)
    THEN [path EXCEPT ![1] = PrefixedParts[path[1]]]
    ELSE path

\* _validate_rule raises ValueError
_validate_rule_raises(path) ==
    /\ startswith_recursive(path)
    /\ ~StartsWithSlash(removeprefix_recursive(path))

\* re.sub(cust_double_non_end, '.*', path): a '**' part that is neither the
\* last part nor followed by a single trailing slash becomes '.*'
sub_double_non_end(path) ==
    [i \in 1..Len(path) |->
        IF /\ path[i] = double_rec_block
           /\ i # Len(path)
           /\ ~(i = Len(path) - 1 /\ path[Len(path)] = "")
        THEN recursive_regex ELSE path[i]]

\* the positions re.search(cust_single_non_end, path) can match at: a part
\* '*' between two slashes whose remainder is neither empty nor "/"
single_non_end(path) ==
    {i \in 2..(Len(path) - 1) :
        /\ path[i] = single_rec_block
        /\ ~(i + 1 = Len(path) /\ path[Len(path)] = "")
        /\ ~(i + 2 = Len(path) /\ path[i + 1] = "" /\ path[Len(path)] = "")}

Min(S) == CHOOSE x \in S : \A y \in S : x <= y

RECURSIVE _proc_single_mid_rec_rule(_)
_proc_single_mid_rec_rule(path) ==
    IF single_non_end(path) = {} THEN <<path>>
    ELSE LET i    == Min(single_non_end(path))
             pre  == SubSeq(path, 1, i - 1)
             post == SubSeq(path, i + 1, Len(path))
         IN  _proc_single_mid_rec_rule(pre \o <<".*">> \o post)
             \o _proc_single_mid_rec_rule(pre \o <<".*", ".*">> \o post)

\* the wider alternatives of an interior wildcard are not excluded
_proc_middle_no_exclusions(path) ==
    LET processed == _proc_single_mid_rec_rule(sub_double_non_end(path))
    IN  [add |-> Head(processed), sub |-> <<>>]

\* (processed[0], processed[1:])
_proc_middle(path) ==
    LET processed == _proc_single_mid_rec_rule(sub_double_non_end(path))
    IN  [add |-> Head(processed), sub |-> Tail(processed)]

\* what removesuffix('*') leaves of a last part that ends with '*'
StarStripped == ("*" :> "") @@ (".*" :> ".")

\* the keyword does not widen a trailing single-level suffix
_proc_ending_one_keyword_ignored(path0) ==
    LET is_recursive      == startswith_recursive(path0)
        path1             == removeprefix_recursive(path0)
        is_double_rec_suf == Last(path1) = double_rec_block
        is_single_rec_suf == ~is_double_rec_suf
                             /\ Last(path1) \in DOMAIN StarStripped
        path == IF is_double_rec_suf
                THEN [path1 EXCEPT ![Len(path1)] = ""]
                ELSE IF is_single_rec_suf
                THEN [path1 EXCEPT ![Len(path1)] = StarStripped[@]]
                ELSE path1
        is_rec_suf == is_single_rec_suf \/ is_double_rec_suf
    IN  IF is_recursive /\ ~is_rec_suf
        THEN [add |-> <<path, JoinRec(path)>>, sub |-> <<>>]
        ELSE IF is_double_rec_suf
        THEN [add |-> <<JoinRec(path)>>, sub |-> <<>>]
        ELSE IF is_single_rec_suf
        THEN [add |-> <<JoinRec(path)>>, sub |-> <<JoinRec(JoinRec(path))>>]
        ELSE [add |-> <<path>>, sub |-> <<>>]

\* the add and sub rules _proc_ending derives from one path
_proc_ending_one(path0) ==
    LET is_recursive      == startswith_recursive(path0)
        path1             == removeprefix_recursive(path0)
        is_double_rec_suf == Last(path1) = double_rec_block
        is_single_rec_suf == ~is_double_rec_suf
                             /\ Last(path1) \in DOMAIN StarStripped
        path == IF is_double_rec_suf
                THEN [path1 EXCEPT ![Len(path1)] = ""]
                ELSE IF is_single_rec_suf
                THEN [path1 EXCEPT ![Len(path1)] = StarStripped[@]]
                ELSE path1
        is_rec_suf == is_single_rec_suf \/ is_double_rec_suf
    IN  IF is_recursive /\ ~is_rec_suf
        THEN [add |-> <<path, JoinRec(path)>>, sub |-> <<>>]
        ELSE IF is_double_rec_suf \/ (is_recursive /\ is_single_rec_suf)
        THEN [add |-> <<JoinRec(path)>>, sub |-> <<>>]
        ELSE IF ~is_recursive /\ is_single_rec_suf
        THEN [add |-> <<JoinRec(path)>>, sub |-> <<JoinRec(JoinRec(path))>>]
        ELSE [add |-> <<path>>, sub |-> <<>>]

RECURSIVE _proc_ending(_)
_proc_ending(paths) ==
    IF paths = <<>> THEN [add |-> <<>>, sub |-> <<>>]
    ELSE LET one  == _proc_ending_one(Head(paths))
             rest == _proc_ending(Tail(paths))
         IN  [add |-> one.add \o rest.add, sub |-> one.sub \o rest.sub]

interpret_add_rule(path) ==
    LET mid  == _proc_middle(path)
        end1 == _proc_ending(<<mid.add>>)
        end2 == _proc_ending(mid.sub)
    IN  [add |-> end1.add, sub |-> end1.sub \o end2.add \o end2.sub]

(***************************************************************************)
(* _space_add_real, _space_sub_real.  st is the pair of the registry list  *)
(* vs and the tree, pr the value of processing_rules.                      *)
(***************************************************************************)
RECURSIVE _space_add_nodes(_, _, _, _)
\* a path that another space holds already is left to that space
_space_add_nodes_unowned(t, space_id, paths, pr) ==
    IF paths = {} THEN t
    ELSE LET pth == CHOOSE p \in paths : TRUE
             t1  == _node_for_path(t, pth, TRUE, pr)
             t2  == IF t1[NodeKey(pth)].positive_mask.space_mask
                          \subseteq {space_id}
                    THEN [t1 EXCEPT ![NodeKey(pth)] =
                                       spaces_mask_set(@, space_id, pr)]
                    ELSE t1
         IN  _space_add_nodes(t2, space_id, paths \ {pth}, pr)

_space_add_nodes(t, space_id, paths, pr) ==
    IF paths = {} THEN t
    ELSE LET pth == CHOOSE p \in paths : TRUE
             t1  == _node_for_path(t, pth, TRUE, pr)
             t2  == [t1 EXCEPT ![NodeKey(pth)] =
                                  spaces_mask_set(@, space_id, pr)]
         IN  _space_add_nodes(t2, space_id, paths \ {pth}, pr)

\* every node on the way to an added path is given the bit
_space_add_real_with_ancestors(st, space_id, paths, pr) ==
    [vs   |-> [st.vs EXCEPT ![space_id + 1].nodes = @ \cup paths],
     tree |-> _space_add_nodes(st.tree, space_id,
                               UNION {Prefixes(NodeKey(p)) : p \in paths}, pr)]

_space_add_real(st, space_id, paths, pr) ==
    [vs   |-> [st.vs EXCEPT ![space_id + 1].nodes = @ \cup paths],
     tree |-> _space_add_nodes(st.tree, space_id, paths, pr)]

RECURSIVE _space_sub_nodes(_, _, _, _)
_space_sub_nodes(t, space_id, paths, pr) ==
    IF paths = {} THEN t
    ELSE LET pth == CHOOSE p \in paths : TRUE
             t1  == _node_for_path(t, pth, TRUE, pr)
             t2  == [t1 EXCEPT ![NodeKey(pth)] =
                                  spaces_mask_unset(@, space_id, pr)]
         IN  _space_sub_nodes(t2, space_id, paths \ {pth}, pr)

\* the realized member set is updated, the nodes are not
_space_sub_real_set_only(st, space_id, paths, pr) ==
    [vs   |-> [st.vs EXCEPT ![space_id + 1].nodes = @ \ paths],
     tree |-> st.tree]

_space_sub_real(st, space_id, paths, pr) ==
    [vs   |-> [st.vs EXCEPT ![space_id + 1].nodes = @ \ paths],
     tree |-> _space_sub_nodes(st.tree, space_id, paths, pr)]

(***************************************************************************)
(* _build_topo                                                             *)
(***************************************************************************)
CycleError == <<-1>>

RECURSIVE SortedIds(_)
SortedIds(S) ==
    IF S = {} THEN <<>>
    ELSE LET m == Min(S) IN <<m>> \o SortedIds(S \ {m})

\* the predecessors _build_topo gives index i: the declared spaces among
\* the pending subspace references of the records that carry this index
predecessors(v, nim, i) ==
    UNION {{space_lookup(nim, n) :
               n \in Range(v[j].subspaces_add \o v[j].subspaces_sub)} :
           j \in {x \in 1..Len(v) : v[x].index = i}} \ {-1}

RECURSIVE static_order(_, _, _, _)
\* graphlib.TopologicalSorter.static_order: the nodes whose predecessors
\* are all done, batch after batch; CycleError when no node is ready
static_order(v, nim, remaining, order) ==
    IF remaining = {} THEN order
    ELSE LET ready == {n \in remaining :
                          predecessors(v, nim, n) \cap remaining = {}}
         IN  IF ready = {} THEN CycleError
             ELSE static_order(v, nim, remaining \ ready,
                               order \o SortedIds(ready))

\* the spaces in registry order, whatever they reference
_build_topo_registry_order(v, nim) ==
    SortedIds({v[i].index : i \in 1..Len(v)})

_build_topo(v, nim) ==
    static_order(v, nim, {v[i].index : i \in 1..Len(v)}, <<>>)

(***************************************************************************)
(* _space_update_internal                                                  *)
(***************************************************************************)
RECURSIVE add_subspaces(_, _, _, _, _)
add_subspaces(st, nim, space_id, names, pr) ==
    IF names = <<>> THEN st
    ELSE LET subspace_id == space_lookup(nim, Head(names))
             st1 == IF subspace_id # -1
                    THEN _space_add_real(st, space_id,
                                         st.vs[subspace_id + 1].nodes, pr)
                    ELSE st
         IN  add_subspaces(st1, nim, space_id, Tail(names), pr)

RECURSIVE sub_subspaces(_, _, _, _, _)
sub_subspaces(st, nim, space_id, names, pr) ==
    IF names = <<>> THEN st
    ELSE LET subspace_id == space_lookup(nim, Head(names))
             st1 == IF subspace_id # -1
                    THEN _space_sub_real(st, space_id,
                                         st.vs[subspace_id + 1].nodes, pr)
                    ELSE st
         IN  sub_subspaces(st1, nim, space_id, Tail(names), pr)

\* the spaces and the tree of st with the counter and the name map of reg
WithRegistry(st, reg) ==
    [vs |-> st.vs, tree |-> st.tree,
     counter |-> reg.counter, name_index_map |-> reg.name_index_map]

\* a space with a reference to an undeclared name is left as it is
update_space_all_or_nothing(st, space_id, pr) ==
    LET space == st.vs[space_id + 1]
        reg   == space_create([counter |-> st.counter,
                               name_index_map |-> st.name_index_map,
                               vs |-> st.vs], space.name)
        nim   == reg.name_index_map
        sid   == nim[space.name]
        st0   == [vs |-> reg.vs, tree |-> st.tree]
        st1   == _space_add_real(st0, sid, Range(space.nodes_add), pr)
        st2   == add_subspaces(st1, nim, sid, space.subspaces_add, pr)
        st3   == [st2 EXCEPT !.vs[space_id + 1].subspaces_add = <<>>,
                             !.vs[space_id + 1].nodes_add = <<>>]
        st4   == _space_sub_real(st3, sid, Range(space.nodes_sub), pr)
        st5   == sub_subspaces(st4, nim, sid, space.subspaces_sub, pr)
        st6   == [st5 EXCEPT !.vs[space_id + 1].subspaces_sub = <<>>,
                             !.vs[space_id + 1].nodes_sub = <<>>]
    IN  IF \E n \in Range(space.subspaces_add \o space.subspaces_sub) :
              space_lookup(nim, n) = -1
        THEN st
        ELSE WithRegistry(st6, reg)

\* the body of the loop over topo_order for the record at position
\* space_id; _space_add_real looks the space up by the name of the record
\* and registers it when this namespace does not know the name
update_space(st, space_id, pr) ==
    LET space == st.vs[space_id + 1]
        reg   == space_create([counter |-> st.counter,
                               name_index_map |-> st.name_index_map,
                               vs |-> st.vs], space.name)
        nim   == reg.name_index_map
        sid   == nim[space.name]
        st0   == [vs |-> reg.vs, tree |-> st.tree]
        st1   == _space_add_real(st0, sid, Range(space.nodes_add), pr)
        st2   == add_subspaces(st1, nim, sid, space.subspaces_add, pr)
        st3   == [st2 EXCEPT !.vs[space_id + 1].subspaces_add = <<>>,
                             !.vs[space_id + 1].nodes_add = <<>>]
        st4   == _space_sub_real(st3, sid, Range(space.nodes_sub), pr)
        st5   == sub_subspaces(st4, nim, sid, space.subspaces_sub, pr)
        st6   == [st5 EXCEPT !.vs[space_id + 1].subspaces_sub = <<>>,
                             !.vs[space_id + 1].nodes_sub = <<>>]
    IN  WithRegistry(st6, reg)

RECURSIVE update_spaces(_, _, _)
\* the references to add stay pending after they have been applied
update_spaces_keeping_references(st, topo_order, pr) ==
    IF topo_order = <<>> THEN st
    ELSE LET st1 == update_space(st, Head(topo_order), pr)
         IN  update_spaces(
                 [st1 EXCEPT !.vs[Head(topo_order) + 1].subspaces_add =
                                st.vs[Head(topo_order) + 1].subspaces_add],
                 Tail(topo_order), pr)

update_spaces(st, topo_order, pr) ==
    IF topo_order = <<>> THEN st
    ELSE update_spaces(update_space(st, Head(topo_order), pr),
                       Tail(topo_order), pr)

\* a cycle is reported and the spaces are processed all the same
_space_update_internal_no_return(st, pr) ==
    LET topo_order == _build_topo(st.vs, st.name_index_map)
    IN  IF topo_order = CycleError
        THEN update_spaces(st,
                           SortedIds({st.vs[i].index : i \in 1..Len(st.vs)}),
                           pr)
        ELSE update_spaces(st, topo_order, pr)

_space_update_internal(st, pr) ==
    LET topo_order == _build_topo(st.vs, st.name_index_map)
    IN  IF topo_order = CycleError THEN st
        ELSE update_spaces(st, topo_order, pr)

(***************************************************************************)
(* _process_regex_nodes, run with processing_rules = False                 *)
(***************************************************************************)
_find_recursive_node(t, nodes) ==
    {c \in nodes : t[c].tag = recursive_regex}

\* Node.active_spaces
active_spaces(v, node) ==
    SelectSeq([i \in 1..Len(v) |-> v[i].index],
              LAMBDA id : spaces_mask_test(node, id))

\* added_nodes[pth] of the defaultdict(list)
new_nodes_get(added_nodes, pth) ==
    IF pth \in DOMAIN added_nodes THEN added_nodes[pth] ELSE <<>>

\* the adds queued in the same pass are not looked at
_recursive_spaces_tree_only(st, nid, pth, new_nodes) ==
    LET rec_sibling == _find_recursive_node(st.tree, siblings(st.tree, nid))
    IN  IF rec_sibling # {}
        THEN active_spaces(st.vs, st.tree[CHOOSE c \in rec_sibling : TRUE])
        ELSE <<>>

_recursive_spaces(st, nid, pth, new_nodes) ==
    LET rec_sibling == _find_recursive_node(st.tree, siblings(st.tree, nid))
        rec_spaces  == IF rec_sibling # {}
                       THEN active_spaces(st.vs,
                                st.tree[CHOOSE c \in rec_sibling : TRUE])
                       ELSE <<>>
        rec_sibling_pth == JoinRec(SplitHead(pth))
    IN  rec_spaces \o new_nodes_get(new_nodes, rec_sibling_pth)

RECURSIVE queue_rec_path(_, _, _)
\* for space_id in parent_recursive_spaces: nodes_add.append(rec_path)
queue_rec_path(v, space_ids, rec_path) ==
    IF space_ids = <<>> THEN v
    ELSE queue_rec_path(
            [v EXCEPT ![Head(space_ids) + 1].nodes_add = Append(@, rec_path)],
            Tail(space_ids), rec_path)

\* the body of the loop of _process_regex_nodes for the node nid
regex_node(st, nid, added_nodes) ==
    IF _find_recursive_node(st.tree, children(st.tree, nid)) # {}
    THEN [vs |-> st.vs, tree |-> st.tree, added_nodes |-> added_nodes]
    ELSE IF nid = RootPath
    THEN [vs |-> st.vs,
          tree |-> _node_for_path(st.tree, JoinRec(nid), TRUE, FALSE),
          added_nodes |-> added_nodes]
    ELSE LET rec_path == JoinRec(nid)
             parent_recursive_spaces ==
                 _recursive_spaces(st, nid, nid, added_nodes)
         IN  [vs   |-> queue_rec_path(st.vs, parent_recursive_spaces,
                                      rec_path),
              tree |-> IF parent_recursive_spaces = <<>>
                       THEN _node_for_path(st.tree, rec_path, TRUE, FALSE)
                       ELSE st.tree,
              added_nodes |->
                 IF parent_recursive_spaces = <<>> THEN added_nodes
                 ELSE [p \in DOMAIN added_nodes \cup {rec_path} |->
                         IF p = rec_path
                         THEN new_nodes_get(added_nodes, p)
                              \o parent_recursive_spaces
                         ELSE added_nodes[p]]]

RECURSIVE SortedByTag(_, _)
\* list.sort() of treelib nodes: by tag
SortedByTag(t, S) ==
    IF S = {} THEN <<>>
    ELSE LET m == CHOOSE x \in S :
                    \A y \in S : TagRank(t[x].tag) <= TagRank(t[y].tag)
         IN  <<m>> \o SortedByTag(t, S \ {m})

RECURSIVE expand_tree(_, _, _)
\* treelib.Tree.expand_tree(filter = tag is not '.*') in depth mode, with
\* the loop body run on each identifier as it is yielded
expand_tree(st, queue, added_nodes) ==
    IF queue = <<>> THEN st
    ELSE LET nid == Head(queue)
             b   == regex_node(st, nid, added_nodes)
             expansion == SortedByTag(b.tree,
                              {c \in children(b.tree, nid) :
                                  b.tree[c].tag # recursive_regex})
         IN  expand_tree([vs |-> b.vs, tree |-> b.tree],
                         expansion \o Tail(queue), b.added_nodes)

\* expand_tree raises NodeIDAbsentError when the tree has no root
_process_regex_nodes_raises(st) == RootPath \notin DOMAIN st.tree

\* the generator yields nothing when the filter rejects the root
_process_regex_nodes(st) ==
    IF st.tree[RootPath].tag = recursive_regex THEN st
    ELSE expand_tree(st, <<RootPath>>, [p \in {} |-> <<>>])

(***************************************************************************)
(* The public operations of NameSpace.                                     *)
(***************************************************************************)
registry == [counter |-> counter, name_index_map |-> name_index_map, vs |-> vs]

Call(op, s_name, paths, exc, cycle, result) ==
    [op |-> op, s_name |-> s_name, paths |-> paths,
     exc |-> exc, cycle |-> cycle, result |-> result]

RECURSIVE space_add_loop(_, _, _)
\* the loop of space_add over its rules; a ValueError of the interpreter
\* ends it and leaves what the earlier rules have queued
space_add_loop(v, space_id, paths) ==
    IF paths = <<>> THEN [vs |-> v, exc |-> "none"]
    ELSE LET pth == Head(paths)
         IN  IF StartsWithSlash(pth) \/ startswith_recursive(pth)
             THEN IF _validate_rule_raises(pth)
                  THEN [vs |-> v, exc |-> "ValueError"]
                  ELSE LET new == interpret_add_rule(pth)
                       IN  space_add_loop(
                             [v EXCEPT ![space_id + 1].nodes_add = @ \o new.add,
                                       ![space_id + 1].nodes_sub = @ \o new.sub],
                             space_id, Tail(paths))
             ELSE space_add_loop(
                    [v EXCEPT ![space_id + 1].subspaces_add = Append(@, pth)],
                    space_id, Tail(paths))

\* a bare name in first place is registered as a space of its own
space_add_declaring_refs(s_name, paths) ==
    LET reg0     == space_create(registry, s_name)
        reg      == IF /\ paths # <<>>
                       /\ ~StartsWithSlash(Head(paths))
                       /\ ~startswith_recursive(Head(paths))
                    THEN space_create(reg0, Head(paths)[1])
                    ELSE reg0
        space_id == reg.name_index_map[s_name]
        r        == space_add_loop(reg.vs, space_id, paths)
    IN  /\ counter' = reg.counter
        /\ name_index_map' = reg.name_index_map
        /\ vs' = r.vs
        /\ UNCHANGED <<tree, processing_rules, other>>
        /\ hist' = Append(hist, Call("space_add", s_name, paths, r.exc,
                                     FALSE, FALSE))

space_add(s_name, paths) ==
    LET reg      == space_create(registry, s_name)
        space_id == reg.name_index_map[s_name]
        r        == space_add_loop(reg.vs, space_id, paths)
    IN  /\ counter' = reg.counter
        /\ name_index_map' = reg.name_index_map
        /\ vs' = r.vs
        /\ UNCHANGED <<tree, processing_rules, other>>
        /\ hist' = Append(hist, Call("space_add", s_name, paths, r.exc,
                                     FALSE, FALSE))

RECURSIVE space_sub_loop(_, _, _)
\* an excluded path leaves the realized member set at once
space_sub_loop_eager(v, space_id, paths) ==
    IF paths = <<>> THEN v
    ELSE LET pth == Head(paths)
         IN  IF ~StartsWithSlash(pth)
             THEN space_sub_loop(
                    [v EXCEPT ![space_id + 1].subspaces_sub = Append(@, pth)],
                    space_id, Tail(paths))
             ELSE space_sub_loop(
                    [v EXCEPT ![space_id + 1].nodes_sub = Append(@, pth),
                              ![space_id + 1].nodes = @ \ {pth}],
                    space_id, Tail(paths))

space_sub_loop(v, space_id, paths) ==
    IF paths = <<>> THEN v
    ELSE LET pth == Head(paths)
         IN  IF ~StartsWithSlash(pth)
             THEN space_sub_loop(
                    [v EXCEPT ![space_id + 1].subspaces_sub = Append(@, pth)],
                    space_id, Tail(paths))
             ELSE space_sub_loop(
                    [v EXCEPT ![space_id + 1].nodes_sub = Append(@, pth)],
                    space_id, Tail(paths))

space_sub(s_name, paths) ==
    LET reg      == space_create(registry, s_name)
        space_id == reg.name_index_map[s_name]
    IN  /\ counter' = reg.counter
        /\ name_index_map' = reg.name_index_map
        /\ vs' = space_sub_loop(reg.vs, space_id, paths)
        /\ UNCHANGED <<tree, processing_rules, other>>
        /\ hist' = Append(hist, Call("space_sub", s_name, paths, "none",
                                     FALSE, FALSE))

RECURSIVE space_test_all(_, _, _)
\* the answer for the first path stands for all of them
space_test_all_first_only(t, space_id, paths) ==
    IF paths = <<>> THEN [tree |-> t, result |-> TRUE]
    ELSE LET t1 == _node_for_path(t, Head(paths), FALSE, FALSE)
         IN  [tree |-> t1,
              result |-> spaces_mask_test(t1[NodeKey(Head(paths))], space_id)]

\* all(...) over the generator: the paths after the first one that tests
\* false are not resolved
space_test_all(t, space_id, paths) ==
    IF paths = <<>> THEN [tree |-> t, result |-> TRUE]
    ELSE LET t1 == _node_for_path(t, Head(paths), FALSE, FALSE)
         IN  IF spaces_mask_test(t1[NodeKey(Head(paths))], space_id)
             THEN space_test_all(t1, space_id, Tail(paths))
             ELSE [tree |-> t1, result |-> FALSE]

space_test(s_name, paths) ==
    LET reg      == space_create(registry, s_name)
        space_id == reg.name_index_map[s_name]
        r        == space_test_all(tree, space_id, paths)
    IN  /\ counter' = reg.counter
        /\ name_index_map' = reg.name_index_map
        /\ vs' = reg.vs
        /\ tree' = r.tree
        /\ UNCHANGED <<processing_rules, other>>
        /\ hist' = Append(hist, Call("space_test", s_name, paths, "none",
                                     FALSE, r.result))

\* what a call of space_update leaves and how it ends
Outcome(st, exc, cycle) ==
    [vs |-> st.vs, tree |-> st.tree,
     counter |-> st.counter, name_index_map |-> st.name_index_map,
     exc |-> exc, cycle |-> cycle]

\* the rules queued by the inheritance pass wait for the next call
space_update_rest_single_pass(st1, cycle) ==
    IF _process_regex_nodes_raises(st1)
    THEN Outcome(st1, "NodeIDAbsentError", cycle)
    ELSE Outcome(WithRegistry(_process_regex_nodes(st1), st1),
                 "none", cycle)

\* space_update after its first _space_update_internal, which left st1
space_update_rest(st1, cycle) ==
    IF _process_regex_nodes_raises(st1)
    THEN Outcome(st1, "NodeIDAbsentError", cycle)
    ELSE Outcome(_space_update_internal(
                     WithRegistry(_process_regex_nodes(st1), st1), FALSE),
                 "none", cycle)

\* what one call of space_update makes of the registry reg and the tree t
space_update_result(reg, t, pr) ==
    space_update_rest(
        _space_update_internal(WithRegistry([vs |-> reg.vs, tree |-> t],
                                            reg), pr),
        _build_topo(reg.vs, reg.name_index_map) = CycleError)

\* the assignments and the log entry of a call that came out as r
space_update_sets(r) ==
    /\ processing_rules' = FALSE
    /\ counter' = r.counter
    /\ name_index_map' = r.name_index_map
    /\ vs' = r.vs
    /\ tree' = r.tree
    /\ UNCHANGED other
    /\ hist' = Append(hist, Call("space_update", "", <<>>,
                                 r.exc, r.cycle, FALSE))

space_update ==
    space_update_sets(
        space_update_result(registry, tree, processing_rules))

(***************************************************************************)
(* The same operations called on the second instance.                      *)
(***************************************************************************)
other_registry ==
    [counter |-> other.counter, name_index_map |-> other.name_index_map,
     vs |-> vs]

other_space_add(s_name, paths) ==
    LET reg      == space_create(other_registry, s_name)
        space_id == reg.name_index_map[s_name]
        r        == space_add_loop(reg.vs, space_id, paths)
    IN  /\ other' = [other EXCEPT !.counter = reg.counter,
                                  !.name_index_map = reg.name_index_map]
        /\ vs' = r.vs
        /\ UNCHANGED <<counter, name_index_map, tree, processing_rules>>
        /\ hist' = Append(hist, Call("other.space_add", s_name, paths,
                                     r.exc, FALSE, FALSE))

other_space_test(s_name, paths) ==
    LET reg      == space_create(other_registry, s_name)
        space_id == reg.name_index_map[s_name]
        r        == space_test_all(other.tree, space_id, paths)
    IN  /\ other' = [other EXCEPT !.counter = reg.counter,
                                  !.name_index_map = reg.name_index_map,
                                  !.tree = r.tree]
        /\ vs' = reg.vs
        /\ UNCHANGED <<counter, name_index_map, tree, processing_rules>>
        /\ hist' = Append(hist, Call("other.space_test", s_name, paths,
                                     "none", FALSE, r.result))

other_space_update_sets(r) ==
    /\ other' = [counter |-> r.counter,
                 name_index_map |-> r.name_index_map,
                 tree |-> r.tree,
                 processing_rules |-> FALSE]
    /\ vs' = r.vs
    /\ UNCHANGED <<counter, name_index_map, tree, processing_rules>>
    /\ hist' = Append(hist, Call("other.space_update", "", <<>>,
                                 r.exc, r.cycle, FALSE))

other_space_update ==
    other_space_update_sets(
        space_update_result(other_registry, other.tree,
                            other.processing_rules))

(***************************************************************************)
(* The state after construction, and the specifications.                   *)
(***************************************************************************)
Init ==
    /\ counter = 0
    /\ name_index_map = [n \in {} |-> 0]
    /\ vs = <<>>
    /\ tree = [p \in {} |-> Node("")]
    /\ processing_rules = TRUE
    /\ hist = <<>>
    /\ other = [counter |-> 0, name_index_map |-> [n \in {} |-> 0],
                tree |-> [p \in {} |-> Node("")],
                processing_rules |-> TRUE]

\* the calls a client makes, drawn from sets of <<name, argument list>>
\* pairs; MaxOps bounds the number of calls made on the instance
Add(Calls) ==
    /\ Len(hist) < MaxOps
    /\ \E c \in Calls : space_add(c[1], c[2])

Sub(Calls) ==
    /\ Len(hist) < MaxOps
    /\ \E c \in Calls : space_sub(c[1], c[2])

Test(Calls) ==
    /\ Len(hist) < MaxOps
    /\ \E c \in Calls : space_test(c[1], c[2])

Update ==
    /\ Len(hist) < MaxOps
    /\ space_update

OtherAdd(Calls) ==
    /\ Len(hist) < MaxOps
    /\ \E c \in Calls : other_space_add(c[1], c[2])

OtherTest(Calls) ==
    /\ Len(hist) < MaxOps
    /\ \E c \in Calls : other_space_test(c[1], c[2])

OtherUpdate ==
    /\ Len(hist) < MaxOps
    /\ other_space_update

\* the rule strings of the model
pA == <<"", "a">>
pAB == <<"", "a", "b">>
pSlash == <<"", "">>
pARec == <<"", "a", ".*">>
recA == <<"recursive ", "a">>
allSlash == <<"", "**">>
refK == <<"k">>
refD == <<"d">>
refE == <<"e">>
pAStar == <<"", "a", "*">>
recD == <<"recursive d">>

\* literal rules, exclusions and a reference to space k, over two spaces
Next ==
    \/ Add({"k", "d"} \X {<<pA>>, <<pAB>>, <<refK>>})
    \/ Sub({"k", "d"} \X {<<pA>>})
    \/ Test({<<"k", <<pA>>>>})
    \/ Update

Spec == Init /\ [][Next]_vars

\* three spaces that may reference each other in a chain or in a ring,
\* with recursive rules and an exclusion of an all-descendants marker
RefsAdds ==
    {<<"k", <<refD>>>>, <<"d", <<refE>>>>, <<"e", <<refK>>>>,
     <<"k", <<refK>>>>, <<"e", <<recA, pAB>>>>,
     <<"d", <<pSlash, allSlash>>>>}

RefsSubs == {<<"k", <<pARec>>>>, <<"k", <<pAB>>>>}

NextRefs ==
    \/ Add(RefsAdds)
    \/ Sub(RefsSubs)
    \/ Test({<<"k", <<pAB>>>>})
    \/ Update

SpecRefs == Init /\ [][NextRefs]_vars

\* one space declared with a recursive rule, a one-level wildcard rule and
\* a call whose second rule puts the recursive keyword on a bare name;
\* exclusions written as rules; probes of one and of two paths
NextRules ==
    \/ Add({<<"k", <<recA>>>>, <<"k", <<pAStar>>>>, <<"k", <<pA, recD>>>>})
    \/ Sub({<<"k", <<recA>>>>, <<"k", <<pAStar>>>>, <<"k", <<pA>>>>})
    \/ Test({<<"k", <<pAB>>>>, <<"k", <<pAStar>>>>, <<"k", <<pA, pARec>>>>})
    \/ Update

SpecRules == Init /\ [][NextRules]_vars

\* two instances in one process, as the test case class creates one per
\* test: each declares, probes and commits spaces of its own
NextTwo ==
    \/ Add({<<"k", <<pA>>>>})
    \/ Test({<<"k", <<pA>>>>, <<"k", <<pAB>>>>})
    \/ Update
    \/ OtherAdd({<<"k", <<pAB>>>>, <<"j", <<pAB>>>>})
    \/ OtherTest({<<"j", <<pAB>>>>})
    \/ OtherUpdate

SpecTwo == Init /\ [][NextTwo]_vars

\* three spaces of which k composes d and excludes the members of e, while
\* d and e are independent of each other and hold rules for common paths
NextOrder ==
    \/ Add({<<"k", <<refD>>>>, <<"d", <<recA>>>>, <<"e", <<pAB, pA>>>>})
    \/ Sub({<<"k", <<refE>>>>, <<"e", <<pA>>>>})
    \/ Update

SpecOrder == Init /\ [][NextOrder]_vars

\* the forms of custom_rule_example.py that end a literal path P
Recursive(P) == [P EXCEPT ![1] = recursive_pref]

EndingRules(P) ==
    {P, Recursive(P), Append(P, double_rec_block),
     Append(Recursive(P), double_rec_block),
     Append(Recursive(P), single_rec_block), Append(P, single_rec_block)}

\* a client declares rules of these forms for one space, one rule a call
\* or two
Declare(Calls) ==
    /\ Len(hist) < MaxRules
    /\ \E c \in Calls : space_add(c[1], c[2])

NextEnding ==
    \/ Declare({<<"k", <<r>>>> : r \in EndingRules(pA) \cup EndingRules(pAB)})
    \/ Declare({<<"k", <<Append(pA, single_rec_block), Recursive(pAB)>>>>,
                <<"k", <<Recursive(pA), Append(pAB, single_rec_block)>>>>})

SpecEnding == Init /\ [][NextEnding]_vars

\* rules with wildcards before the last position, as the last two forms of
\* custom_rule_example.py: one, two and three single-level wildcards, apart
\* and adjacent, at the front, with a '**' and with a trailing form
MiddleRules ==
    {<<"", "a", "*", "b">>, <<"", "*", "a">>, <<"", "a", "**", "b">>,
     <<"", "a", "*", "b", "*", "a">>, <<"", "a", "*", "*", "b">>,
     <<"", "*", "*", "*", "a">>, <<"", "a", "**", "*", "b">>,
     <<"", "a", "*", "**", "b">>, <<"", "a", "*", "b", "*">>,
     <<"", "a", "*", "b", "**">>, <<"recursive ", "a", "*", "b">>,
     <<"recursive ", "a", "*", "b", "*">>}

NextMiddle ==
    \/ Declare({<<"k", <<r>>>> : r \in MiddleRules})

SpecMiddle == Init /\ [][NextMiddle]_vars

\* probes of paths written without the leading slash, as the 'etc/ssh/id_rsa'
\* of namespace_example.py, next to rules and probes of absolute paths
relBA == <<"b", "a">>
relA == <<"a">>

NextProbes ==
    \/ Add({<<"k", <<pA>>>>, <<"k", <<pAB>>>>})
    \/ Test({<<"k", <<pA>>>>, <<"k", <<pAB>>>>, <<"k", <<relBA>>>>,
             <<"k", <<relA>>>>})
    \/ Update

SpecProbes == Init /\ [][NextProbes]_vars

\* k composes d once; d is declared with a recursive rule and goes on to
\* gain and to lose literal paths
NextSnapshot ==
    \/ Add({<<"k", <<refD>>>>, <<"d", <<recA>>>>, <<"d", <<pAB>>>>})
    \/ Sub({<<"d", <<pA>>>>})
    \/ Update

SpecSnapshot == Init /\ [][NextSnapshot]_vars

(***************************************************************************)
(* _unique_digest and the tree by identifier.  The digest is held at a     *)
(* width of one byte, not of PATH_DIGEST_LEN bytes: a slot is a number in  *)
(* 0..255, and the values are the first bytes of the md5 digests that      *)
(* _get_digest computes.  In SpecDigest the variable tree is the treelib   *)
(* tree as NameSpace holds it: a function from the identifier of a node,   *)
(* its digest, to the node with its stored path.                           *)
(***************************************************************************)
\* Md5Byte[d + 1] is the first byte of md5 of the one byte d
Md5Byte ==
    <<147, 85, 158, 134, 236, 139, 6, 137, 226, 94, 104, 19, 88, 220, 77,
      216, 107, 71, 168, 255, 21, 245, 191, 132, 203, 229, 190, 246, 3, 235,
      123, 173, 114, 144, 177, 1, 195, 11, 108, 53, 132, 147, 51, 38, 192,
      51, 80, 102, 207, 196, 200, 236, 168, 228, 22, 143, 201, 69, 133, 158,
      82, 67, 206, 209, 81, 127, 157, 13, 246, 58, 128, 223, 193, 221, 255,
      165, 210, 105, 141, 241, 68, 240, 225, 93, 185, 76, 82, 97, 2, 87, 33,
      129, 40, 15, 126, 177, 131, 12, 146, 74, 130, 225, 143, 178, 37, 134,
      54, 140, 45, 111, 123, 217, 131, 118, 75, 3, 227, 123, 158, 241, 157,
      65, 251, 249, 185, 203, 76, 131, 141, 205, 89, 5, 236, 160, 220, 143,
      118, 40, 29, 52, 151, 207, 241, 50, 188, 64, 104, 92, 157, 117, 60,
      196, 71, 109, 109, 182, 115, 10, 206, 220, 154, 115, 79, 213, 243,
      171, 96, 107, 133, 162, 159, 36, 32, 59, 2, 0, 236, 198, 153, 236, 19,
      80, 218, 218, 106, 243, 107, 214, 77, 171, 178, 214, 72, 25, 100, 215,
      255, 236, 246, 86, 153, 82, 206, 173, 162, 230, 189, 85, 143, 173,
      107, 122, 153, 209, 115, 124, 12, 174, 103, 152, 185, 49, 175, 162,
      236, 46, 216, 105, 193, 115, 49, 157, 120, 52, 134, 171, 22, 38, 252,
      37, 140, 237, 122, 99, 151, 173, 68, 25, 49, 137, 137, 234, 207, 218,
      64, 0>>

pES == <<"", "es">>
pN == <<"", "n">>
pP == <<"", "p">>
pM == <<"", "m">>

\* the first byte of md5 of the path string
PathDigest ==
    (RootPath :> 212) @@ (pA :> 6) @@ (pES :> 6) @@ (pN :> 184) @@
    (pP :> 184) @@ (pM :> 54)

\* _get_digest(digest)[:PATH_DIGEST_LEN] for the digest of an earlier round
_get_digest(digest) == Md5Byte[digest + 1]

RECURSIVE _unique_digest_loop(_, _, _, _)
\* the loop of _unique_digest from the digest of one round on; tried holds
\* the digests of the rounds before.  The next digest depends on the
\* current one only, so a digest met twice is met for ever: ends is FALSE
\* when the loop never breaks
_unique_digest_loop(t, pth, digest, tried) ==
    IF digest \notin DOMAIN t
    THEN [ends |-> TRUE, digest |-> digest, node |-> FALSE]
    ELSE IF t[digest].path = pth
    THEN [ends |-> TRUE, digest |-> digest, node |-> TRUE]
    ELSE IF digest \in tried
    THEN [ends |-> FALSE, digest |-> digest, node |-> FALSE]
    ELSE _unique_digest_loop(t, pth, _get_digest(digest),
                             tried \cup {digest})

_unique_digest(t, pth) == _unique_digest_loop(t, pth, PathDigest[pth], {})

RECURSIVE _node_for_path_walk(_, _, _)
\* the loop of _node_for_path over the components from the i-th on; ends
\* is FALSE when a call of _unique_digest does not return
_node_for_path_walk(t, pth, i) ==
    IF i > Len(pth) THEN [ends |-> TRUE, tree |-> t]
    ELSE LET child_pth == SubSeq(pth, 1, i)
             found     == _unique_digest(t, child_pth)
         IN  IF ~found.ends THEN [ends |-> FALSE, tree |-> t]
             ELSE IF found.node
             THEN _node_for_path_walk(t, pth, i + 1)
             ELSE _node_for_path_walk(
                      [d \in DOMAIN t \cup {found.digest} |->
                          IF d \in DOMAIN t THEN t[d]
                          ELSE [path |-> child_pth, data |-> Node(pth[i])]],
                      pth, i + 1)

\* _node_for_path(pth) on the tree by identifier
_node_for_path_by_digest(t, pth) ==
    LET found == _unique_digest(t, pth)
    IN  IF ~found.ends THEN [ends |-> FALSE, tree |-> t]
        ELSE IF found.node THEN [ends |-> TRUE, tree |-> t]
        ELSE _node_for_path_walk(t, pth, 1)

\* the last call has not returned
Stuck == hist # <<>> /\ hist[Len(hist)].exc = "no return"

\* space_test(s_name, pth) on the tree by identifier: no rule is declared
\* in SpecDigest, so the probe of a resolved node answers False
digest_space_test(s_name, pth) ==
    LET reg == space_create(registry, s_name)
        r   == _node_for_path_by_digest(tree, pth)
    IN  /\ counter' = reg.counter
        /\ name_index_map' = reg.name_index_map
        /\ vs' = reg.vs
        /\ tree' = r.tree
        /\ UNCHANGED <<processing_rules, other>>
        /\ hist' = Append(hist, Call("space_test", s_name, <<pth>>,
                                     IF r.ends THEN "none" ELSE "no return",
                                     FALSE, FALSE))

DigestPaths == {pA, pES, pN, pP, pM}

DigestTest ==
    /\ Len(hist) < MaxOps
    /\ ~Stuck
    /\ \E pth \in DigestPaths : digest_space_test("k", pth)

NextDigest ==
    \/ DigestTest

SpecDigest == Init /\ [][NextDigest]_vars

(***************************************************************************)
(* Properties.                                                             *)
(***************************************************************************)
\* space_test(s_name, pth) would return true in the state (nim, t)
MemberIn(nim, t, s_name, pth) ==
    /\ s_name \in DOMAIN nim
    /\ NodeKey(pth) \in DOMAIN t
    /\ spaces_mask_test(t[NodeKey(pth)], nim[s_name])

Member(s_name, pth) == MemberIn(name_index_map, tree, s_name, pth)

\* the negative bit of the space on the node of pth is set
ExcludedIn(nim, t, s_name, pth) ==
    /\ s_name \in DOMAIN nim
    /\ NodeKey(pth) \in DOMAIN t
    /\ is_space_set(t[NodeKey(pth)].negative_mask, nim[s_name])

Excluded(s_name, pth) == ExcludedIn(name_index_map, tree, s_name, pth)

\* an absolute path without wildcard and without the recursive keyword
IsLiteral(pth) ==
    /\ StartsWithSlash(pth)
    /\ \A i \in 1..Len(pth) : pth[i] \notin {"*", "**", ".*", "."}

NCalls == Len(hist)

\* the step is a call of space_update
UpdateCalled ==
    /\ Len(hist') = Len(hist) + 1
    /\ hist'[Len(hist')].op = "space_update"

\* the call of space_update of the step found a cycle
UpdateAborted == UpdateCalled /\ hist'[Len(hist')].cycle

\* the last two calls were space_add and a space_update without cycle
AddThenUpdate ==
    /\ NCalls >= 2
    /\ hist[NCalls].op = "space_update"
    /\ ~hist[NCalls].cycle
    /\ hist[NCalls - 1].op = "space_add"
    /\ hist[NCalls - 1].exc = "none"

\* C1 as stated: from any state with an acyclic reference graph, after
\* space_add(s, p) of a literal path and space_update(), space_test(s, p)
\* returns true.
C1_AddedPathTestsTrue ==
    AddThenUpdate =>
        \A p \in Range(hist[NCalls - 1].paths) :
            IsLiteral(p) => Member(hist[NCalls - 1].s_name, p)

\* C1 amended: after space_add(s, p) of a literal path and a space_update()
\* without cycle, the positive bit of s on p is set, and space_test(s, p)
\* returns true unless the negative bit of s on p is set.
C1_AddedPathTestsTrueUnlessExcluded ==
    AddThenUpdate =>
        \A p \in Range(hist[NCalls - 1].paths) :
            IsLiteral(p) =>
                LET s == hist[NCalls - 1].s_name
                IN  /\ is_space_set(tree[p].positive_mask, name_index_map[s])
                    /\ ~Excluded(s, p) => Member(s, p)

C1_Witness ==
    /\ AddThenUpdate
    /\ \E p \in Range(hist[NCalls - 1].paths) :
          IsLiteral(p) /\ Member(hist[NCalls - 1].s_name, p)
    /\ \E i \in 1..(NCalls - 2) : hist[i].op = "space_update"

(***************************************************************************)
(* C2: what the log of calls shows to have been declared for a space.      *)
(***************************************************************************)
RECURSIVE QueuedRules(_)
\* the rules of one space_add call that were queued: those before the
\* first rule the interpreter rejects
QueuedRules(paths) ==
    IF paths = <<>> THEN {}
    ELSE IF (StartsWithSlash(Head(paths)) \/ startswith_recursive(Head(paths)))
            /\ _validate_rule_raises(Head(paths))
    THEN {}
    ELSE {Head(paths)} \cup QueuedRules(Tail(paths))

AddRulesOf(s_name) ==
    UNION {QueuedRules(hist[i].paths) :
              i \in {j \in 1..Len(hist) : /\ hist[j].op = "space_add"
                                          /\ hist[j].s_name = s_name}}

\* the primitive paths that the add rules of the space queue as adds
AddTargetsOf(s_name) ==
    UNION {Range(interpret_add_rule(r).add) :
              r \in {x \in AddRulesOf(s_name) :
                        StartsWithSlash(x) \/ startswith_recursive(x)}}

\* the names the space references as subspaces to add
AddRefsOf(s_name) ==
    {r[1] : r \in {x \in AddRulesOf(s_name) :
                      ~StartsWithSlash(x) /\ ~startswith_recursive(x)}}

RECURSIVE RefClosure(_)
RefClosure(S) ==
    LET T == S \cup UNION {AddRefsOf(x) : x \in S}
    IN  IF T = S THEN S ELSE RefClosure(T)

\* the primitive add targets of the space, composed subspaces included
ComposedAddTargets(s_name) ==
    UNION {AddTargetsOf(d) : d \in RefClosure({s_name})}

\* C2: a path that is not an all-descendants marker and was never the
\* primitive target of an add rule of space s (directly, by expansion or
\* through a composed subspace) tests false for s in every reachable state.
C2_NeverAddedTestsFalse ==
    \A s \in DOMAIN name_index_map :
        \A q \in DOMAIN tree :
            (tree[q].tag # recursive_regex /\ q \notin ComposedAddTargets(s))
                => ~spaces_mask_test(tree[q], name_index_map[s])

\* an auto-created ancestor of a member path, after a commit, under a space
\* that got the path through a subspace
C2_Witness ==
    /\ NCalls >= 1
    /\ hist[NCalls].op = "space_update"
    /\ \E s \in DOMAIN name_index_map :
          /\ AddTargetsOf(s) = {}
          /\ Member(s, pAB)
          /\ pA \notin ComposedAddTargets(s)
          /\ ~Member(s, pA)

(***************************************************************************)
(* C3, C4, C5: exclusions.                                                 *)
(***************************************************************************)
\* C3 as stated: a literal path that is both added to and subtracted from s
\* in one batch tests false after space_update(), every other path added to
\* s in the batch tests true.
C3_SubtractedFalseOthersTrue ==
    [][UpdateCalled =>
        \A i \in 1..Len(vs) :
            \A p \in Range(vs[i].nodes_add) :
                IsLiteral(p) =>
                    IF p \in Range(vs[i].nodes_sub)
                    THEN ~MemberIn(name_index_map', tree', vs[i].name, p)
                    ELSE MemberIn(name_index_map', tree', vs[i].name, p)]_vars

\* C3 amended: after a space_update() that is not aborted by a cycle, a
\* literal path both added to and subtracted from s in the batch tests
\* false, and every other literal path added to s in the batch tests true
\* unless the negative bit of s on it is set.
C3_SubtractedFalseOthersTrueUnlessExcluded ==
    [][(UpdateCalled /\ ~UpdateAborted) =>
        \A i \in 1..Len(vs) :
            \A p \in Range(vs[i].nodes_add) :
                IsLiteral(p) =>
                    IF p \in Range(vs[i].nodes_sub)
                    THEN ~MemberIn(name_index_map', tree', vs[i].name, p)
                    ELSE \/ ExcludedIn(name_index_map', tree', vs[i].name, p)
                         \/ MemberIn(name_index_map', tree', vs[i].name, p)]_vars

\* the batch add(s, /a), add(s, /a/b), sub(s, /a) in any order, committed
C3_Witness ==
    /\ NCalls = 4
    /\ hist[4].op = "space_update"
    /\ ~hist[4].cycle
    /\ \E s \in DOMAIN name_index_map :
          /\ \E i \in 1..3 : hist[i] = Call("space_add", s, <<pA>>, "none",
                                            FALSE, FALSE)
          /\ \E i \in 1..3 : hist[i] = Call("space_add", s, <<pAB>>, "none",
                                            FALSE, FALSE)
          /\ \E i \in 1..3 : hist[i] = Call("space_sub", s, <<pA>>, "none",
                                            FALSE, FALSE)
          /\ ~Member(s, pA)
          /\ Member(s, pAB)

\* the last two calls were space_sub and space_update
SubThenUpdate ==
    /\ NCalls >= 2
    /\ hist[NCalls].op = "space_update"
    /\ hist[NCalls - 1].op = "space_sub"

\* C4 as stated: after space_sub(s, p) and space_update(), p tests false
\* for s, whether it tested true before or not.
C4_SubtractedTestsFalse ==
    SubThenUpdate =>
        \A p \in Range(hist[NCalls - 1].paths) :
            StartsWithSlash(p) => ~Member(hist[NCalls - 1].s_name, p)

\* C4 amended: after space_sub(s, p) and a space_update() that is not
\* aborted by a cycle, p tests false for s, whether it tested true before
\* or not.
C4_SubtractedTestsFalseUnlessAborted ==
    (SubThenUpdate /\ ~hist[NCalls].cycle) =>
        \A p \in Range(hist[NCalls - 1].paths) :
            StartsWithSlash(p) => ~Member(hist[NCalls - 1].s_name, p)

\* add(s, p), commit, sub(s, p), commit: p was a member and is none now
C4_Witness ==
    /\ NCalls = 4
    /\ SubThenUpdate
    /\ ~hist[4].cycle
    /\ hist[1].op = "space_add"
    /\ hist[1].s_name = hist[3].s_name
    /\ hist[1].paths = hist[3].paths
    /\ hist[2].op = "space_update"
    /\ ~hist[2].cycle
    /\ \A p \in Range(hist[3].paths) :
          IsLiteral(p) /\ ~Member(hist[3].s_name, p)

\* the last four calls were add(s, p), sub(s, p), add(s, p), space_update()
\* for one literal path p
AddSubAddUpdate ==
    /\ NCalls >= 4
    /\ hist[NCalls].op = "space_update"
    /\ hist[NCalls - 1].op = "space_add"
    /\ hist[NCalls - 2].op = "space_sub"
    /\ hist[NCalls - 3].op = "space_add"
    /\ Len(hist[NCalls - 1].paths) = 1
    /\ IsLiteral(hist[NCalls - 1].paths[1])
    /\ \A i \in {NCalls - 3, NCalls - 2} :
          /\ hist[i].s_name = hist[NCalls - 1].s_name
          /\ hist[i].paths = hist[NCalls - 1].paths

\* C5 as stated: add(s, p); sub(s, p); add(s, p); space_update() leaves p
\* a member of s.
C5_AddSubAddConvergesToAdded ==
    AddSubAddUpdate =>
        Member(hist[NCalls - 1].s_name, hist[NCalls - 1].paths[1])

\* C5 amended: add(s, p); sub(s, p); add(s, p); space_update() leaves p
\* excluded from s when the update is not aborted by a cycle: the
\* negative bit of s on p is set and space_test(s, p) is false.
C5_AddSubAddLeavesExcluded ==
    (AddSubAddUpdate /\ ~hist[NCalls].cycle) =>
        /\ Excluded(hist[NCalls - 1].s_name, hist[NCalls - 1].paths[1])
        /\ ~Member(hist[NCalls - 1].s_name, hist[NCalls - 1].paths[1])

C5_Witness ==
    /\ NCalls = 4
    /\ AddSubAddUpdate
    /\ ~hist[4].cycle
    /\ hist[4].exc = "none"
    /\ ~Member(hist[3].s_name, hist[3].paths[1])
    /\ is_space_set(tree[hist[3].paths[1]].positive_mask,
                    name_index_map[hist[3].s_name])

(***************************************************************************)
(* C6: composition of subspaces.                                           *)
(***************************************************************************)
\* the all-descendants markers a marker inherits from: those of the
\* ancestors of the node it belongs to
MarkersAbove(q) ==
    IF Last(q) = recursive_regex
    THEN {Append(SubSeq(q, 1, j), recursive_regex) : j \in 1..(Len(q) - 2)}
    ELSE {}

\* C6 as stated: when k holds a pending reference to a declared space d and
\* the reference graph is acyclic, then after one space_update() every path
\* that tests true under d tests true under k, provided k has no exclusion
\* for that path.
C6_CompositionInOneUpdate ==
    [][(UpdateCalled /\ ~UpdateAborted) =>
        \A i \in 1..Len(vs) :
            \A ref \in Range(vs[i].subspaces_add) :
                LET d == space_lookup(name_index_map, ref)
                    k == vs[i].index
                IN  d # -1 =>
                      \A q \in DOMAIN tree' :
                          (/\ spaces_mask_test(tree'[q], d)
                           /\ ~is_space_set(tree'[q].negative_mask, k))
                              => spaces_mask_test(tree'[q], k)]_vars

\* C6 amended: ... provided k has no exclusion for that path nor, when the
\* path is an all-descendants marker, for a marker of an ancestor that it
\* inherits from.
C6_CompositionUnlessMarkerExcluded ==
    [][(UpdateCalled /\ ~UpdateAborted) =>
        \A i \in 1..Len(vs) :
            \A ref \in Range(vs[i].subspaces_add) :
                LET d == space_lookup(name_index_map, ref)
                    k == vs[i].index
                IN  d # -1 =>
                      \A q \in DOMAIN tree' :
                          (/\ spaces_mask_test(tree'[q], d)
                           /\ ~is_space_set(tree'[q].negative_mask, k)
                           /\ \A m \in MarkersAbove(q) \cap DOMAIN tree' :
                                 ~is_space_set(tree'[m].negative_mask, k))
                              => spaces_mask_test(tree'[q], k)]_vars

\* a chain k -> d -> e declared before e's rules, committed by one update:
\* what e gained in the update is in k
C6_Witness ==
    /\ NCalls = 4
    /\ hist[1] = Call("space_add", "k", <<refD>>, "none", FALSE, FALSE)
    /\ hist[2] = Call("space_add", "d", <<refE>>, "none", FALSE, FALSE)
    /\ hist[3] = Call("space_add", "e", <<recA, pAB>>, "none", FALSE, FALSE)
    /\ hist[4] = Call("space_update", "", <<>>, "none", FALSE, FALSE)
    /\ \A q \in {pA, pARec, pAB, JoinRec(pAB)} :
          Member("e", q) /\ Member("d", q) /\ Member("k", q)

(***************************************************************************)
(* C7, C8, C9, C10: an update that finds a cycle.                          *)
(***************************************************************************)
\* C7: a space_update() that finds a cycle changes no mask bit of any node
\* and no realized member set, so that every space_test result is kept.
C7_AbortChangesNoMembership ==
    [][UpdateAborted =>
        /\ DOMAIN tree \subseteq DOMAIN tree'
        /\ \A q \in DOMAIN tree :
              /\ tree'[q].positive_mask = tree[q].positive_mask
              /\ tree'[q].negative_mask = tree[q].negative_mask
        /\ \A q \in DOMAIN tree' \ DOMAIN tree :
              /\ tree'[q].positive_mask = SpaceBitmask
              /\ tree'[q].negative_mask = SpaceBitmask
        /\ Len(vs') = Len(vs)
        /\ \A i \in 1..Len(vs) : vs'[i].nodes = vs[i].nodes
        /\ name_index_map' = name_index_map]_vars

\* an update aborted by a cycle while a space holds pending path rules,
\* on a tree whose nodes carry members from an update that was applied
C7_Witness ==
    /\ NCalls >= 2
    /\ hist[NCalls].op = "space_update"
    /\ hist[NCalls].cycle
    /\ hist[NCalls].exc = "none"
    /\ \E i \in 1..(NCalls - 1) :
          hist[i].op = "space_update" /\ ~hist[i].cycle
    /\ \E i \in 1..Len(vs) : vs[i].nodes_sub # <<>>
    /\ \E q \in DOMAIN tree : tree[q].positive_mask # SpaceBitmask

\* the four pending lists of a space record
Pending(space) ==
    <<space.nodes_add, space.nodes_sub,
      space.subspaces_add, space.subspaces_sub>>

\* C8: a space_update() that finds a cycle leaves the four pending lists
\* of every space as they were.
C8_AbortKeepsPendingLists ==
    [][UpdateAborted =>
        /\ Len(vs') = Len(vs)
        /\ \A i \in 1..Len(vs) : Pending(vs'[i]) = Pending(vs[i])]_vars

\* C9: a space_update() that finds a cycle runs neither pass: the set of
\* tree nodes and the processing-rules mode are unchanged.
C9_AbortRunsNoPass ==
    [][UpdateAborted =>
        /\ DOMAIN tree' = DOMAIN tree
        /\ processing_rules' = processing_rules]_vars

\* C10: space_update() never raises to the caller; when it finds a cycle,
\* also on a namespace whose tree holds no node yet, it returns normally.
C10_UpdateNeverRaises ==
    \A i \in 1..Len(hist) :
        (hist[i].op = "space_update" /\ hist[i].cycle)
            => hist[i].exc = "none"

(***************************************************************************)
(* C11: descendants of a path added with the recursive keyword.            *)
(***************************************************************************)
\* C11: after space_add(s, 'recursive /a') and space_update(), /a tests
\* true for s, and a path below /a that is resolved later without an add
\* of its own (here /a/b, first probed by space_test) tests true for s once
\* a later space_update() has run the inheritance pass.
C11_DescendantsInherit ==
    \A i, j, l \in 1..NCalls :
        (/\ i < j /\ j < l /\ l < NCalls
         /\ hist[i] = Call("space_add", "k", <<recA>>, "none", FALSE, FALSE)
         /\ hist[j].op = "space_update"
         /\ hist[j].exc = "none"
         /\ \A n \in 1..j : hist[n].op # "space_sub"
         /\ hist[l].op = "space_test"
         /\ hist[l].paths = <<pAB>>
         /\ hist[NCalls].op = "space_update"
         /\ hist[NCalls].exc = "none")
            => Member("k", pA) /\ Member("k", pAB)

(***************************************************************************)
(* C12: references to names that are no declared space.                    *)
(***************************************************************************)
\* the references of the list that name a declared space
DeclaredRefs(nim, names) ==
    LET declared(n) == space_lookup(nim, n) # -1
    IN  SelectSeq(names, declared)

\* the space records without their references to undeclared names
WithoutUnknownRefs(v, nim) ==
    [i \in 1..Len(v) |->
        [v[i] EXCEPT !.subspaces_add = DeclaredRefs(nim, @),
                     !.subspaces_sub = DeclaredRefs(nim, @)]]

\* some space holds a pending reference to an undeclared name
HasUnknownRef ==
    WithoutUnknownRefs(vs, name_index_map) # vs

\* the step ends as the call that came out as r, with every pending
\* reference list emptied, every pending literal add applied and every
\* referenced declared space composed
SkippedAs(r) ==
    /\ vs' = r.vs
    /\ tree' = r.tree
    /\ hist'[Len(hist')].exc = r.exc
    /\ \A i \in 1..Len(vs) :
          /\ vs'[i].subspaces_add = <<>>
          /\ vs'[i].subspaces_sub = <<>>
          /\ \A p \in Range(vs[i].nodes_add) :
                IsLiteral(p) =>
                    \/ MemberIn(name_index_map', tree', vs[i].name, p)
                    \/ ExcludedIn(name_index_map', tree', vs[i].name, p)
          /\ \A n \in Range(vs[i].subspaces_add) :
                space_lookup(name_index_map, n) # -1 =>
                    \A q \in vs'[space_lookup(name_index_map, n) + 1].nodes :
                        \/ MemberIn(name_index_map', tree', vs[i].name, q)
                        \/ ExcludedIn(name_index_map', tree', vs[i].name, q)

\* C12: a space_update() that meets references to undeclared names and is
\* not aborted by a cycle skips these references only: it ends as the same
\* call without them would, every pending list is emptied, every pending
\* literal add of every space is applied, and every declared space that a
\* space references has its realized members composed into that space.
C12_UnknownReferenceSkipped ==
    [][(UpdateCalled /\ ~UpdateAborted /\ HasUnknownRef) =>
        SkippedAs(space_update_result(
                      [registry EXCEPT
                          !.vs = WithoutUnknownRefs(vs, name_index_map)],
                      tree, processing_rules))]_vars

\* d references e, which was never declared, and holds literal rules; k
\* references d: one update gives d its paths and k the paths of d
C12_Witness ==
    /\ NCalls = 4
    /\ hist[4].op = "space_update"
    /\ hist[4].exc = "none"
    /\ ~hist[4].cycle
    /\ \E i \in 1..3 : hist[i] = Call("space_add", "d", <<refE>>, "none",
                                      FALSE, FALSE)
    /\ \E i \in 1..3 : hist[i] = Call("space_add", "k", <<refD>>, "none",
                                      FALSE, FALSE)
    /\ "e" \notin DOMAIN name_index_map
    /\ Member("d", pSlash)
    /\ Member("k", pSlash)

(***************************************************************************)
(* C13, C14: the rule grammar in space_add and in space_sub.               *)
(***************************************************************************)
\* the step is a call of space_add that raised ValueError
AddRaised ==
    /\ Len(hist') = Len(hist) + 1
    /\ hist'[Len(hist')].op = "space_add"
    /\ hist'[Len(hist')].exc = "ValueError"

\* C13: a space_add call with a rule that puts the recursive keyword on a
\* bare name raises before anything is queued: the pending lists of every
\* space are as before the call, also when valid rules precede the
\* offending one.
C13_RaiseQueuesNothing ==
    [][AddRaised =>
        \A i \in 1..Len(vs') :
            Pending(vs'[i]) = IF i <= Len(vs) THEN Pending(vs[i])
                              ELSE <<<<>>, <<>>, <<>>, <<>>>>]_vars

\* C14: space_sub interprets its rules as space_add does: after
\* space_sub(s, 'recursive /a') and space_update(), /a and the
\* all-descendants marker /a/.* carry the negative bit of s.
C14_SubInterpretsRules ==
    (/\ NCalls >= 2
     /\ hist[NCalls - 1] = Call("space_sub", "k", <<recA>>, "none",
                                FALSE, FALSE)
     /\ hist[NCalls].op = "space_update"
     /\ hist[NCalls].exc = "none"
     /\ ~hist[NCalls].cycle)
        => Excluded("k", pA) /\ Excluded("k", pARec)

(***************************************************************************)
(* C15, C16: what space_test, space_add and space_sub leave alone.         *)
(***************************************************************************)
\* the step is a call of space_test
TestCalled ==
    /\ Len(hist') = Len(hist) + 1
    /\ hist'[Len(hist')].op = "space_test"

\* a space record as space() creates it
IsFresh(space) ==
    /\ space.nodes = {}
    /\ Pending(space) = <<<<>>, <<>>, <<>>, <<>>>>

\* C15: space_test(s, p1, ..., pn) returns true iff the node of every pi
\* has the positive bit of s set and the negative bit of s clear; it may
\* create nodes, which carry no bit, and changes no node that exists, no
\* realized member set and no pending list.
C15_TestReadsOnly ==
    [][TestCalled =>
        LET c == hist'[Len(hist')]
        IN  /\ c.result = (\A n \in 1..Len(c.paths) :
                              MemberIn(name_index_map', tree', c.s_name,
                                       c.paths[n]))
            /\ DOMAIN tree \subseteq DOMAIN tree'
            /\ \A q \in DOMAIN tree : tree'[q] = tree[q]
            /\ \A q \in DOMAIN tree' \ DOMAIN tree :
                  /\ tree'[q].positive_mask = SpaceBitmask
                  /\ tree'[q].negative_mask = SpaceBitmask
            /\ \A i \in 1..Len(vs') :
                  IF i <= Len(vs) THEN vs'[i] = vs[i]
                  ELSE IsFresh(vs'[i])]_vars

\* a probe of two paths that both test true, one of them a marker
C15_Witness ==
    /\ NCalls >= 3
    /\ hist[NCalls] = Call("space_test", "k", <<pA, pARec>>, "none",
                           FALSE, TRUE)
    /\ \E i \in 1..(NCalls - 1) :
          hist[i].op = "space_test" /\ ~hist[i].result

\* the step is a call of space_add or of space_sub
DeclareCalled ==
    /\ Len(hist') = Len(hist) + 1
    /\ hist'[Len(hist')].op \in {"space_add", "space_sub"}

\* C16: space_add and space_sub only queue: they create no tree node,
\* change no mask bit and no realized member set, and no space_test result
\* changes before the next space_update().
C16_DeclarationsOnlyQueue ==
    [][DeclareCalled =>
        /\ tree' = tree
        /\ processing_rules' = processing_rules
        /\ \A s \in DOMAIN name_index_map :
              /\ s \in DOMAIN name_index_map'
              /\ name_index_map'[s] = name_index_map[s]
        /\ \A i \in 1..Len(vs') :
              IF i <= Len(vs) THEN vs'[i].nodes = vs[i].nodes
              ELSE vs'[i].nodes = {}]_vars

\* an exclusion of a path that is a realized member was queued, and the
\* path still tests true
C16_Witness ==
    /\ NCalls >= 3
    /\ hist[NCalls] = Call("space_sub", "k", <<pA>>, "none", FALSE, FALSE)
    /\ Member("k", pA)
    /\ pA \in vs[1].nodes
    /\ pA \in Range(vs[1].nodes_sub)

(***************************************************************************)
(* C18: when a space is registered.                                        *)
(***************************************************************************)
\* the bare names a declaration call references
RefsOfCall(c) ==
    IF c.op = "space_add"
    THEN {r[1] : r \in {x \in Range(c.paths) :
                           ~StartsWithSlash(x) /\ ~startswith_recursive(x)}}
    ELSE IF c.op = "space_sub"
    THEN {r[1] : r \in {x \in Range(c.paths) : ~StartsWithSlash(x)}}
    ELSE {}

\* the names used as the first argument of an operation
TargetsOfCalls ==
    {hist[i].s_name :
        i \in {j \in 1..NCalls :
                  hist[j].op \in {"space_add", "space_sub", "space_test"}}}

\* C18 as stated: a space is registered at the first reference to its
\* name, also a bare subspace reference in space_add or space_sub.
C18_ReferenceRegisters ==
    \A i \in 1..NCalls :
        RefsOfCall(hist[i]) \subseteq DOMAIN name_index_map

\* C18 amended: a space is registered at the first use of its name as the
\* first argument of space_add, space_sub or space_test, and only then; a
\* bare subspace reference registers nothing.
C18_OnlyTargetsRegister ==
    DOMAIN name_index_map = TargetsOfCalls

\* k references d, and d is no space
C18_Witness ==
    /\ NCalls >= 1
    /\ hist[1] = Call("space_add", "k", <<refD>>, "none", FALSE, FALSE)
    /\ "k" \in DOMAIN name_index_map
    /\ "d" \notin DOMAIN name_index_map
    /\ refD \in Range(vs[name_index_map["k"] + 1].subspaces_add)

(***************************************************************************)
(* C20: the one-level wildcard rule.                                       *)
(***************************************************************************)
\* C20: after space_add(s, '/a/*') and space_update(), space_test(s,
\* '/a/*') returns true.
C20_WildcardRuleTestsTrue ==
    (/\ NCalls >= 3
     /\ hist[NCalls - 2] = Call("space_add", "k", <<pAStar>>, "none",
                                FALSE, FALSE)
     /\ hist[NCalls - 1].op = "space_update"
     /\ hist[NCalls - 1].exc = "none"
     /\ hist[NCalls].op = "space_test"
     /\ hist[NCalls].paths = <<pAStar>>)
        => hist[NCalls].result

(***************************************************************************)
(* C17, C19: the registry of spaces when a second instance exists.         *)
(***************************************************************************)
\* the step is a call on the second instance
OtherCalled ==
    /\ Len(hist') = Len(hist) + 1
    /\ hist'[Len(hist')].op \in {"other.space_add", "other.space_test",
                                 "other.space_update"}

\* C17: an operation on one instance changes nothing of another instance:
\* its space indices, the records of its spaces with their pending lists
\* and realized member sets, its tree and so its space_test results stay
\* as they are.
C17_InstancesShareNothing ==
    [][OtherCalled =>
        /\ counter' = counter
        /\ name_index_map' = name_index_map
        /\ tree' = tree
        /\ \A s \in DOMAIN name_index_map :
              vs'[name_index_map[s] + 1] = vs[name_index_map[s] + 1]]_vars

\* the registry (counter, name map, list of records) is well formed: the
\* names map one-to-one onto the indices 0 .. counter - 1 and the record at
\* position i is the one of the name with index i
WellFormed(reg) ==
    /\ \A s \in DOMAIN reg.name_index_map :
          /\ reg.name_index_map[s] \in 0..(reg.counter - 1)
          /\ reg.name_index_map[s] + 1 <= Len(reg.vs)
          /\ reg.vs[reg.name_index_map[s] + 1].name = s
          /\ reg.vs[reg.name_index_map[s] + 1].index = reg.name_index_map[s]
    /\ \A s1, s2 \in DOMAIN reg.name_index_map :
          reg.name_index_map[s1] = reg.name_index_map[s2] => s1 = s2
    /\ Cardinality(DOMAIN reg.name_index_map) = reg.counter

\* C19: in every namespace each name has one index, distinct names have
\* distinct indices, the indices are 0, 1, 2, ... in order of first use,
\* and the record at position i of the registry is the one with index i.
C19_IndexIsPosition ==
    WellFormed(registry) /\ WellFormed(other_registry)

(***************************************************************************)
(* C21: the orders space_update leaves open.                               *)
(***************************************************************************)
RECURSIVE Perms(_)
\* the sequences that list the elements of S once each
Perms(S) ==
    IF S = {} THEN {<<>>}
    ELSE UNION {{<<x>> \o p : p \in Perms(S \ {x})} : x \in S}

\* the orders static_order may return: every space after its predecessors
ValidOrders(v, nim) ==
    {o \in Perms({v[i].index : i \in 1..Len(v)}) :
        \A a, b \in 1..Len(o) :
            o[a] \in predecessors(v, nim, o[b]) => a < b}

RECURSIVE add_in_order(_, _, _, _)
\* the loop of _space_add_real over its paths, taken in the order of the
\* sequence
add_in_order(t, space_id, paths, pr) ==
    IF paths = <<>> THEN t
    ELSE add_in_order(_space_add_nodes(t, space_id, {Head(paths)}, pr),
                      space_id, Tail(paths), pr)

RECURSIVE sub_in_order(_, _, _, _)
\* the loop of _space_sub_real over its paths, taken in the order of the
\* sequence
sub_in_order(t, space_id, paths, pr) ==
    IF paths = <<>> THEN t
    ELSE sub_in_order(_space_sub_nodes(t, space_id, {Head(paths)}, pr),
                      space_id, Tail(paths), pr)

\* a loop over a set of paths, with the tree it starts from
SetLoop(t, space_id, paths, positive) ==
    [tree |-> t, space_id |-> space_id, paths |-> paths,
     positive |-> positive]

RECURSIVE ref_loops(_, _, _, _, _, _)
\* the loops over realized member sets that the composition of the
\* subspaces names makes for the space sid, from the state st on
ref_loops(st, nim, sid, names, pr, positive) ==
    IF names = <<>> THEN <<>>
    ELSE LET id == space_lookup(nim, Head(names))
         IN  (IF id = -1 THEN <<>>
              ELSE <<SetLoop(st.tree, sid, st.vs[id + 1].nodes, positive)>>)
             \o
             ref_loops(IF positive
                       THEN add_subspaces(st, nim, sid, <<Head(names)>>, pr)
                       ELSE sub_subspaces(st, nim, sid, <<Head(names)>>, pr),
                       nim, sid, Tail(names), pr, positive)

\* the loops over realized member sets in the body of the loop over
\* topo_order for the record at position space_id
space_loops(st, space_id, pr) ==
    LET space == st.vs[space_id + 1]
        nim   == st.name_index_map
        sid   == nim[space.name]
        st0   == [vs |-> st.vs, tree |-> st.tree]
        st1   == _space_add_real(st0, sid, Range(space.nodes_add), pr)
        st2   == add_subspaces(st1, nim, sid, space.subspaces_add, pr)
        st4   == _space_sub_real(st2, sid, Range(space.nodes_sub), pr)
    IN  ref_loops(st1, nim, sid, space.subspaces_add, pr, TRUE)
        \o ref_loops(st4, nim, sid, space.subspaces_sub, pr, FALSE)

RECURSIVE pass_loops(_, _, _)
\* the loops over realized member sets of one _space_update_internal that
\* takes the spaces in the order topo_order
pass_loops(st, topo_order, pr) ==
    IF topo_order = <<>> THEN <<>>
    ELSE space_loops(st, Head(topo_order), pr)
         \o pass_loops(update_space(st, Head(topo_order), pr),
                         Tail(topo_order), pr)

\* the step is a call of space_update that found no cycle and did not raise
UpdateApplied ==
    /\ UpdateCalled
    /\ ~UpdateAborted
    /\ hist'[Len(hist')].exc = "none"

\* the state the first pass of the space_update of the step starts from
FirstPassStart == WithRegistry([vs |-> vs, tree |-> tree], registry)

\* the state the first pass of the space_update of the step leaves
AfterFirstPass == _space_update_internal(FirstPassStart, processing_rules)

\* the state the second pass of the space_update of the step starts from
SecondPassStart ==
    WithRegistry(_process_regex_nodes(AfterFirstPass), AfterFirstPass)

\* the loops over realized member sets of the first pass taken in order o
FirstPassLoops(o) == pass_loops(FirstPassStart, o, processing_rules)

\* C21: the outcome of space_update() does not depend on the orders the
\* call leaves open: every valid topological order of the spaces in the
\* first and in the second internal update, and every iteration order of
\* the realized member sets that are composed, gives the masks, the member
\* sets and so the space_test results that the call gives.
C21_UpdateOrderFree ==
    [][UpdateApplied =>
        /\ \A o \in ValidOrders(vs, name_index_map) :
              /\ update_spaces(FirstPassStart, o, processing_rules).vs
                    = AfterFirstPass.vs
              /\ update_spaces(FirstPassStart, o, processing_rules).tree
                    = AfterFirstPass.tree
              /\ \A n \in 1..Len(FirstPassLoops(o)) :
                    \A seq \in Perms(FirstPassLoops(o)[n].paths) :
                        IF FirstPassLoops(o)[n].positive
                        THEN add_in_order(FirstPassLoops(o)[n].tree,
                                          FirstPassLoops(o)[n].space_id,
                                          seq, processing_rules)
                             = _space_add_nodes(FirstPassLoops(o)[n].tree,
                                                FirstPassLoops(o)[n].space_id,
                                                FirstPassLoops(o)[n].paths,
                                                processing_rules)
                        ELSE sub_in_order(FirstPassLoops(o)[n].tree,
                                          FirstPassLoops(o)[n].space_id,
                                          seq, processing_rules)
                             = _space_sub_nodes(FirstPassLoops(o)[n].tree,
                                                FirstPassLoops(o)[n].space_id,
                                                FirstPassLoops(o)[n].paths,
                                                processing_rules)
        /\ \A o \in Perms({vs'[i].index : i \in 1..Len(vs')}) :
              /\ update_spaces(SecondPassStart, o, FALSE).vs = vs'
              /\ update_spaces(SecondPassStart, o, FALSE).tree = tree']_vars

\* an update of k, which composes d and excludes the members of e, with d
\* and e declared in the same batch: d and e may come in either order, and
\* the member sets of d and of e hold two paths each
C21_Witness ==
    /\ NCalls = 5
    /\ hist[5] = Call("space_update", "", <<>>, "none", FALSE, FALSE)
    /\ \E i \in 1..4 : hist[i] = Call("space_add", "k", <<refD>>, "none",
                                      FALSE, FALSE)
    /\ \E i \in 1..4 : hist[i] = Call("space_sub", "k", <<refE>>, "none",
                                      FALSE, FALSE)
    /\ \E i \in 1..4 : hist[i] = Call("space_add", "d", <<recA>>, "none",
                                      FALSE, FALSE)
    /\ \E i \in 1..4 : hist[i] = Call("space_add", "e", <<pAB, pA>>, "none",
                                      FALSE, FALSE)
    /\ Member("d", pA) /\ Member("e", pA)
    /\ ~Member("k", pA) /\ Member("k", pARec)

(***************************************************************************)
(* C22: retrying after an update that found a cycle.                       *)
(***************************************************************************)
\* the declarations a client of SpecRefs can make
Declarations ==
    [op : {"space_add"}, call : RefsAdds]
        \cup [op : {"space_sub"}, call : RefsSubs]

\* the sequences of at most MaxFix declarations
Corrections == UNION {[1..n -> Declarations] : n \in 0..MaxFix}

\* the registry after the declaration d is made on the registry reg
declared(reg, d) ==
    LET r  == space_create(reg, d.call[1])
        id == r.name_index_map[d.call[1]]
    IN  [r EXCEPT !.vs = IF d.op = "space_add"
                         THEN space_add_loop(r.vs, id, d.call[2]).vs
                         ELSE space_sub_loop(r.vs, id, d.call[2])]

RECURSIVE declared_all(_, _)
declared_all(reg, ds) ==
    IF ds = <<>> THEN reg
    ELSE declared_all(declared(reg, Head(ds)), Tail(ds))

\* a space_update() on the registry reg would find a cycle
WouldAbort(reg) == _build_topo(reg.vs, reg.name_index_map) = CycleError

\* C22: after a space_update() that found a cycle and returned, some
\* sequence of space_add / space_sub calls leads to a configuration on
\* which space_update() is not aborted and so applies the pending edits.
C22_AbortCanBeCorrected ==
    (/\ NCalls >= 1
     /\ hist[NCalls].op = "space_update"
     /\ hist[NCalls].cycle
     /\ hist[NCalls].exc = "none")
        => \E ds \in Corrections : ~WouldAbort(declared_all(registry, ds))

(***************************************************************************)
(* C23: mask bits are only ever set.                                       *)
(***************************************************************************)
\* C23: no operation removes a node or clears a positive or a negative bit
\* of a node, so a path that carries the negative bit of a space keeps it
\* and tests false for the space after every later operation, whatever is
\* added afterwards.
C23_MaskBitsMonotone ==
    [][\A q \in DOMAIN tree :
          /\ q \in DOMAIN tree'
          /\ tree[q].positive_mask.space_mask
                \subseteq tree'[q].positive_mask.space_mask
          /\ tree[q].negative_mask.space_mask
                \subseteq tree'[q].negative_mask.space_mask
          /\ \A s \in DOMAIN name_index_map :
                Excluded(s, q) =>
                    /\ ExcludedIn(name_index_map', tree', s, q)
                    /\ ~MemberIn(name_index_map', tree', s, q)]_vars

\* an exclusion of a literal path was committed, an add of the same path
\* to the same space was committed after it, and the path tests false
C23_Witness ==
    \E i, j \in 1..NCalls :
        /\ i + 1 < j /\ j < NCalls
        /\ hist[i].op = "space_sub"
        /\ hist[i + 1].op = "space_update" /\ ~hist[i + 1].cycle
        /\ hist[j].op = "space_add"
        /\ hist[j].s_name = hist[i].s_name
        /\ hist[j].paths = hist[i].paths
        /\ IsLiteral(hist[i].paths[1])
        /\ hist[NCalls].op = "space_update" /\ ~hist[NCalls].cycle
        /\ Excluded(hist[i].s_name, hist[i].paths[1])
        /\ is_space_set(tree[hist[i].paths[1]].positive_mask,
                        name_index_map[hist[i].s_name])
        /\ ~Member(hist[i].s_name, hist[i].paths[1])

(***************************************************************************)
(* C24: the pending lists after an update.                                 *)
(***************************************************************************)
NoPending == <<<<>>, <<>>, <<>>, <<>>>>

\* the last call was a space_update that found no cycle and returned
UpdateReturned ==
    /\ NCalls >= 1
    /\ hist[NCalls].op = "space_update"
    /\ ~hist[NCalls].cycle
    /\ hist[NCalls].exc = "none"

\* C24: when space_update() returns without having found a cycle, the four
\* pending lists of every space are empty, the add rules that the
\* inheritance pass queued during the call included.
C24_UpdateEmptiesPending ==
    UpdateReturned => \A i \in 1..Len(vs) : Pending(vs[i]) = NoPending

\* the inheritance pass of the update queued the marker /a/b/.* for space
\* e, and the second internal update applied it as inherited
C24_Witness ==
    /\ UpdateReturned
    /\ \A i \in 1..Len(vs) : Pending(vs[i]) = NoPending
    /\ Member("e", JoinRec(pAB))
    /\ ~was_added_by_rule(tree[JoinRec(pAB)], name_index_map["e"])
    /\ JoinRec(pAB) \in vs[name_index_map["e"] + 1].nodes

(***************************************************************************)
(* C25, C26: the provenance of a bit.                                      *)
(***************************************************************************)
\* C25: in every space_update() call, not only the first one of the
\* instance, a literal path that the call applies for a space is recorded
\* as set by rule: after space_add(s, p) and a space_update() without
\* cycle, the provenance bit of s on p is set and the node of p is flagged
\* created-by-rule.
C25_LiteralAddIsByRule ==
    AddThenUpdate =>
        \A p \in Range(hist[NCalls - 1].paths) :
            IsLiteral(p) =>
                /\ was_set_by_rule(tree[p].positive_mask,
                                   name_index_map[hist[NCalls - 1].s_name])
                /\ tree[p].created_by_rule

\* C26: what a space gains through a subspace reference is marked as
\* inherited: after space_add(k, 'd') and a space_update() without cycle,
\* the bit of k on every member path that k has from the realized member
\* set of d only, and not from an add rule of its own, is not by rule.
C26_ComposedIsInherited ==
    AddThenUpdate =>
        LET k == hist[NCalls - 1].s_name
        IN  \A ref \in Range(hist[NCalls - 1].paths) :
                (/\ ~StartsWithSlash(ref)
                 /\ ~startswith_recursive(ref)
                 /\ space_lookup(name_index_map, ref) # -1) =>
                    \A q \in vs[space_lookup(name_index_map, ref) + 1].nodes :
                        (q \notin AddTargetsOf(k) /\ Member(k, q)) =>
                            ~was_added_by_rule(tree[q], name_index_map[k])

(***************************************************************************)
(* C27, C28, C29: the all-descendants nodes of the inheritance pass.       *)
(***************************************************************************)
\* the node is no all-descendants node and lies beneath none
OutsideMarkers(q) == \A i \in 1..Len(q) : q[i] # recursive_regex

\* the all-descendants child of the node q
MarkerOf(q) == Append(q, recursive_regex)

\* the spaces that hold the node without a rule of their own
InheritedSpaces(node) ==
    {id \in node.positive_mask.space_mask : ~was_added_by_rule(node, id)}

\* C27: after a space_update() that is not aborted, every tree node that is
\* neither an all-descendants node nor beneath one, the root included, has
\* an all-descendants child, and the one of the root belongs to no space
\* through inheritance.
C27_EveryNodeHasMarker ==
    UpdateReturned =>
        /\ \A q \in DOMAIN tree :
              OutsideMarkers(q) => MarkerOf(q) \in DOMAIN tree
        /\ MarkerOf(RootPath) \in DOMAIN tree
              => InheritedSpaces(tree[MarkerOf(RootPath)]) = {}

\* the node n of the tree t is one that the inheritance pass gives an
\* all-descendants node of its own: it is not the root, neither an
\* all-descendants node nor beneath one, and has no such child
LacksMarker(t, n) ==
    /\ n \in DOMAIN t
    /\ n # RootPath
    /\ OutsideMarkers(n)
    /\ _find_recursive_node(t, children(t, n)) = {}

RECURSIVE parent_marker_spaces(_, _)
\* the spaces that the all-descendants node of the parent of n effectively
\* belongs to when the inheritance pass on the state st comes to n: those
\* of the node when it is in the tree, else those queued for it when the
\* pass came to the parent
parent_marker_spaces(st, n) ==
    LET rec_sibling == _find_recursive_node(st.tree, siblings(st.tree, n))
    IN  IF rec_sibling # {}
        THEN Range(active_spaces(st.vs,
                                 st.tree[CHOOSE c \in rec_sibling : TRUE]))
        ELSE IF Front(n) = RootPath THEN {}
        ELSE parent_marker_spaces(st, Front(n))

OneLevelRuleCommitted ==
    /\ UpdateReturned
    /\ \A i \in 1..(NCalls - 1) :
          \/ hist[i].op = "space_test"
          \/ /\ hist[i].op = "space_add"
             /\ hist[i].s_name = "k"
             /\ hist[i].paths = <<pAStar>>
    /\ \E i \in 1..(NCalls - 1) : hist[i].op = "space_add"

\* the nodes strictly below /a that are neither all-descendants nodes nor
\* beneath one
DeeperNodes ==
    {q \in DOMAIN tree :
        /\ Len(q) > Len(pA)
        /\ SubSeq(q, 1, Len(pA)) = pA
        /\ OutsideMarkers(q)}

\* C29: after space_add(k, '/a/*') and space_update(), the one-level node
\* /a/.* tests true for k, its own all-descendants node /a/.*/.* tests
\* false, and the all-descendants node of no deeper existing node, such as
\* /a/b/.* of /a/b, tests true for k.
C29_OneLevelOnly ==
    OneLevelRuleCommitted =>
        /\ Member("k", pARec)
        /\ ~Member("k", MarkerOf(pARec))
        /\ \A q \in DeeperNodes : ~Member("k", MarkerOf(q))

(***************************************************************************)
(* C30: the translation of the trailing position.                          *)
(***************************************************************************)
\* the step is a call of space_add
AddCalled ==
    /\ Len(hist') = Len(hist) + 1
    /\ hist'[Len(hist')].op = "space_add"

\* the pending lists of the space before the call, empty for a space that
\* the call creates
PendingBefore(s_name) ==
    IF s_name \in DOMAIN name_index_map
    THEN vs[name_index_map[s_name] + 1]
    ELSE VirtualSpace(s_name, counter)

\* the paths that the rule rule of form 'recursive P', 'P/**',
\* 'recursive P/**', 'recursive P/*', 'P/*' or 'P' is stated to queue
StatedAdds(rule, P) ==
    IF rule = P THEN <<P>>
    ELSE IF rule = Recursive(P) THEN <<P, Append(P, recursive_regex)>>
    ELSE <<Append(P, recursive_regex)>>

StatedSubs(rule, P) ==
    IF rule = Append(P, single_rec_block)
    THEN <<Append(Append(P, recursive_regex), recursive_regex)>>
    ELSE <<>>

RECURSIVE StatedQueue(_, _)
\* the stated adds (positive) or subs of the rules of a call, in the order
\* of declaration
StatedQueue(rules, positive) ==
    IF rules = <<>> THEN <<>>
    ELSE LET P == CHOOSE q \in {pA, pAB} : Head(rules) \in EndingRules(q)
         IN  (IF positive THEN StatedAdds(Head(rules), P)
              ELSE StatedSubs(Head(rules), P))
             \o StatedQueue(Tail(rules), positive)

\* C30: a call of space_add with rules that end a literal path P appends to
\* the pending paths of the space, in declaration order: for 'recursive P'
\* the adds P and P/.*; for 'P/**', 'recursive P/**' and 'recursive P/*'
\* the add P/.*; for 'P/*' the add P/.* and the exclusion P/.*/.*; for 'P'
\* the add P; and it queues nothing else.
C30_TrailingTranslation ==
    [][AddCalled =>
        LET call   == hist'[Len(hist')]
            before == PendingBefore(call.s_name)
            after  == vs'[name_index_map'[call.s_name] + 1]
        IN  /\ call.exc = "none"
            /\ after.nodes_add =
                   before.nodes_add \o StatedQueue(call.paths, TRUE)
            /\ after.nodes_sub =
                   before.nodes_sub \o StatedQueue(call.paths, FALSE)
            /\ after.subspaces_add = before.subspaces_add
            /\ after.subspaces_sub = before.subspaces_sub
            /\ after.nodes = before.nodes]_vars

\* 'recursive /a/*', then '/a/*' and 'recursive /a/b' in one call, have
\* queued their paths for k
C30_Witness ==
    /\ NCalls = 2
    /\ hist[1].paths = <<Append(Recursive(pA), single_rec_block)>>
    /\ hist[2].paths = <<Append(pA, single_rec_block), Recursive(pAB)>>
    /\ "k" \in DOMAIN name_index_map
    /\ vs[name_index_map["k"] + 1].nodes_add =
          <<pARec, pARec, pAB, Append(pAB, recursive_regex)>>
    /\ vs[name_index_map["k"] + 1].nodes_sub = <<Append(pARec, recursive_regex)>>

(***************************************************************************)
(* C31: the translation of the positions before the last.                  *)
(***************************************************************************)
\* the positions of the single-level wildcards of the rule before its last
\* part
InteriorSingles(rule) ==
    {i \in 2..(Len(rule) - 1) : rule[i] = single_rec_block}

RECURSIVE Pow2(_)
Pow2(n) == IF n = 0 THEN 1 ELSE 2 * Pow2(n - 1)

RECURSIVE Alternative(_, _, _)
\* the parts of the rule from position i on, with every interior '**'
\* turned into '.*' and the j-th of its n interior single-level wildcards
\* turned into one '.*' when digit j of the n binary digits of c is 0 and
\* into two when it is 1
Alternative(rule, i, c) ==
    IF i > Len(rule) THEN <<>>
    ELSE LET n == Cardinality(InteriorSingles(rule))
             j == Cardinality({w \in InteriorSingles(rule) : w <= i})
         IN  (IF i \in InteriorSingles(rule)
              THEN IF (c \div Pow2(n - j)) % 2 = 0
                   THEN <<recursive_regex>>
                   ELSE <<recursive_regex, recursive_regex>>
              ELSE IF i < Len(rule) /\ rule[i] = double_rec_block
              THEN <<recursive_regex>>
              ELSE <<rule[i]>>)
             \o Alternative(rule, i + 1, c)

\* the 2^n alternatives of the rule, the narrowest first
Alternatives(rule) ==
    [c \in 1..Pow2(Cardinality(InteriorSingles(rule))) |->
        Alternative(rule, 1, c - 1)]

\* C31: a call of space_add with a rule that has n single-level wildcards
\* before its last part queues the 2^n paths in which every interior '**'
\* is '.*' and every such wildcard is one or two '.*' parts: the trailing
\* translation of the path with one part at every wildcard is queued as
\* it stands, and all paths of the trailing translations of the other
\* 2^n - 1, in their order, are queued as exclusions.
C31_InteriorExpansion ==
    [][AddCalled =>
        LET call   == hist'[Len(hist')]
            before == PendingBefore(call.s_name)
            after  == vs'[name_index_map'[call.s_name] + 1]
            alts   == Alternatives(call.paths[1])
            first  == _proc_ending(<<Head(alts)>>)
            others == _proc_ending(Tail(alts))
        IN  /\ call.exc = "none"
            /\ Len(alts) = Pow2(Cardinality(InteriorSingles(call.paths[1])))
            /\ after.nodes_add = before.nodes_add \o first.add
            /\ after.nodes_sub =
                   before.nodes_sub \o first.sub \o others.add \o others.sub
            /\ after.subspaces_add = before.subspaces_add
            /\ after.subspaces_sub = before.subspaces_sub]_vars

\* '/a/*/b/*/a' has queued one add and three exclusions, the widest last
C31_Witness ==
    /\ NCalls = 1
    /\ hist[1].paths = <<(<<"", "a", "*", "b", "*", "a">>)>>
    /\ "k" \in DOMAIN name_index_map
    /\ vs[name_index_map["k"] + 1].nodes_add =
          <<(<<"", "a", ".*", "b", ".*", "a">>)>>
    /\ vs[name_index_map["k"] + 1].nodes_sub =
          <<(<<"", "a", ".*", "b", ".*", ".*", "a">>),
            (<<"", "a", ".*", ".*", "b", ".*", "a">>),
            (<<"", "a", ".*", ".*", "b", ".*", ".*", "a">>)>>

(***************************************************************************)
(* C32: the identity of paths and nodes.                                   *)
(***************************************************************************)
\* C32: the node that a space_test probe of a path resolves to stores that
\* very path, so that two path strings never share a node; a path that has
\* its node already creates nothing; a new path has its node and the
\* nodes of all its ancestors after the call; and no call removes a node.
C32_PathIdentity ==
    [][/\ DOMAIN tree \subseteq DOMAIN tree'
       /\ TestCalled =>
             LET pth == hist'[Len(hist')].paths[1]
             IN  /\ pth \in DOMAIN tree'
                 /\ Prefixes(pth) \ {<<pth[1]>>} \subseteq DOMAIN tree'
                 /\ pth \in DOMAIN tree => tree' = tree]_vars

C34_NodesAreMembers ==
    \A s_name \in DOMAIN name_index_map :
        /\ \A pth \in vs[name_index_map[s_name] + 1].nodes :
              Member(s_name, pth)
        /\ \A pth \in DOMAIN tree :
              Member(s_name, pth) =>
                  pth \in vs[name_index_map[s_name] + 1].nodes

(***************************************************************************)
(* C35: probes and later answers.                                          *)
(***************************************************************************)
\* what space_update() followed by space_test(s_name, pth) makes of the
\* registry reg, the tree t and the flag pr
LaterAnswer(reg, t, pr, s_name, pth) ==
    LET r    == space_update_result(reg, t, pr)
        reg2 == space_create([counter        |-> r.counter,
                              name_index_map |-> r.name_index_map,
                              vs             |-> r.vs], s_name)
    IN  [exc    |-> r.exc,
         result |-> space_test_all(r.tree, reg2.name_index_map[s_name],
                                   <<pth>>).result]

\* the paths probed after the update
LaterProbes == {pA, pAB, pARec, MarkerOf(pAB)}

\* C35: a space_test call changes the answer of no later space_test call:
\* a space_update() that returns, followed by a probe, gives the same
\* answer whether or not the call was made before it.
C35_ProbesChangeNoAnswer ==
    [][TestCalled =>
        \A pth \in LaterProbes :
            LET without == LaterAnswer(registry, tree, processing_rules,
                                       "k", pth)
                with    == LaterAnswer([counter        |-> counter',
                                        name_index_map |-> name_index_map',
                                        vs             |-> vs'],
                                       tree', processing_rules', "k", pth)
            IN  (without.exc = "none" /\ with.exc = "none")
                    => without.result = with.result]_vars

(***************************************************************************)
(* C36: a reference is composed when it is applied.                        *)
(***************************************************************************)
\* the i-th call is a space_update() that was not aborted and applied a
\* reference to d that k had declared, and k has declared nothing since
ReferenceApplied(i) ==
    /\ i \in 1..NCalls
    /\ hist[i].op = "space_update"
    /\ ~hist[i].cycle
    /\ hist[i].exc = "none"
    /\ \E j \in 1..(i - 1) :
          /\ hist[j].op = "space_add"
          /\ hist[j].s_name = "k"
          /\ refD \in Range(hist[j].paths)
    /\ \A j \in (i + 1)..NCalls : hist[j].s_name # "k"

\* C36 as stated: once a space_update() has applied k's reference to d, a
\* later space_update() before which k has declared nothing leaves the
\* membership of k as it was, whatever d has gained or lost.
C36_CompositionIsSnapshot ==
    [][(UpdateCalled /\ \E i \in 1..NCalls : ReferenceApplied(i)) =>
        \A pth \in DOMAIN tree' :
            MemberIn(name_index_map', tree', "k", pth) = Member("k", pth)]_vars

\* C36 amended: such a later space_update() changes the membership of k
\* for no node that was in the tree, and the nodes it adds that belong to
\* k are all-descendants nodes that k holds with provenance inherited.
C36_CompositionKeptButInherited ==
    [][(UpdateCalled /\ \E i \in 1..NCalls : ReferenceApplied(i)) =>
        \A pth \in DOMAIN tree' :
            IF pth \in DOMAIN tree
            THEN MemberIn(name_index_map', tree', "k", pth)
                     = Member("k", pth)
            ELSE MemberIn(name_index_map', tree', "k", pth) =>
                     /\ Last(pth) = recursive_regex
                     /\ ~was_added_by_rule(tree'[pth],
                                           name_index_map'["k"])]_vars

\* d gained '/a/b' after k had composed 'recursive /a' from it: k does not
\* hold '/a/b' and holds its all-descendants node
C36_Witness ==
    /\ NCalls = 5
    /\ ReferenceApplied(3)
    /\ hist[4] = Call("space_add", "d", <<pAB>>, "none", FALSE, FALSE)
    /\ UpdateReturned
    /\ Member("d", pAB)
    /\ ~Member("k", pAB)
    /\ Member("k", pARec)
    /\ Member("k", MarkerOf(pAB))

(***************************************************************************)
(* C37: a skipped reference is not kept.                                   *)
(***************************************************************************)
\* the i-th call is a space_update() that was not aborted and met a
\* reference of k to d while no call had named the space d, and k has
\* made no declaration since
ReferenceSkipped(i) ==
    /\ i \in 1..NCalls
    /\ hist[i].op = "space_update"
    /\ ~hist[i].cycle
    /\ \E j \in 1..(i - 1) :
          /\ hist[j].op = "space_add"
          /\ hist[j].s_name = "k"
          /\ refD \in Range(hist[j].paths)
    /\ \A j \in 1..(i - 1) : hist[j].s_name # "d"
    /\ \A j \in (i + 1)..NCalls :
          hist[j].s_name = "k" => hist[j].op = "space_test"

\* C37: a space_update() that follows one which skipped k's reference to
\* the unknown space d, without a declaration of k in between, finds no
\* reference of k pending and gives k no path, also when d has been
\* declared in the meantime.
C37_SkippedReferenceConsumed ==
    [][(UpdateCalled /\ \E i \in 1..NCalls : ReferenceSkipped(i)) =>
        /\ PendingBefore("k").subspaces_add = <<>>
        /\ PendingBefore("k").subspaces_sub = <<>>
        /\ vs'[name_index_map'["k"] + 1].nodes = PendingBefore("k").nodes
        /\ \A pth \in DOMAIN tree' :
              MemberIn(name_index_map', tree', "k", pth) = Member("k", pth)]_vars

\* d was declared after the update that skipped k's reference to it, and
\* the next update gave the paths of d to d and not to k
C37_Witness ==
    /\ ReferenceSkipped(3)
    /\ hist[3].exc = "none"
    /\ NCalls = 5
    /\ hist[4].op = "space_add"
    /\ hist[4].s_name = "d"
    /\ UpdateReturned
    /\ Member("d", pSlash)
    /\ ~Member("k", pSlash)
    /\ vs[name_index_map["k"] + 1].nodes = {}
    /\ vs[name_index_map["d"] + 1].nodes # {}

(***************************************************************************)
(* C38: a second space_update() in a row.                                  *)
(***************************************************************************)
\* the step is a call of space_update that follows a call of space_update
UpdateRepeated ==
    /\ UpdateCalled
    /\ NCalls >= 1
    /\ hist[NCalls].op = "space_update"

\* C38: a space_update() called right after a space_update() changes no
\* bit of a positive or negative mask, provenance included, no realized
\* member set and no answer of space_test: it leaves the nodes of the tree
\* and the member sets of the spaces as they were.
C38_UpdateIdempotent ==
    [][UpdateRepeated =>
        /\ tree' = tree
        /\ name_index_map' = name_index_map
        /\ Len(vs') = Len(vs)
        /\ \A i \in 1..Len(vs) : vs'[i].nodes = vs[i].nodes]_vars

\* two calls of space_update in a row have returned, and e holds the
\* all-descendants node of '/a/b' through the inheritance pass
C38_Witness ==
    /\ NCalls >= 3
    /\ UpdateReturned
    /\ hist[NCalls - 1].op = "space_update"
    /\ hist[NCalls - 1].exc = "none"
    /\ ~hist[NCalls - 1].cycle
    /\ Member("e", MarkerOf(pAB))
    /\ ~was_added_by_rule(tree[MarkerOf(pAB)], name_index_map["e"])

(***************************************************************************)
(* C39: the prototype tree.NameSpace of src/tree.py, with one mask a node. *)
(* Its state is the record of its fields counter, name_index_map, vs (an   *)
(* attribute of the instance) and tree, a function from the stored path of *)
(* a node to the set of bits of its spaces_mask.  It is run on the calls   *)
(* that hist has logged.                                                   *)
(***************************************************************************)
tree_NameSpace ==
    [counter |-> 0, name_index_map |-> [n \in {} |-> 0], vs |-> <<>>,
     tree |-> [q \in {} |-> {}]]

\* tree.NameSpace._node_for_path
tree_node_for_path(t, pth) ==
    IF pth \in DOMAIN t THEN t
    ELSE [q \in DOMAIN t \cup Prefixes(NodeKey(pth)) |->
             IF q \in DOMAIN t THEN t[q] ELSE {}]

\* the registry fields of the prototype after space(name)
tree_space(st, name) ==
    LET reg == space_create([counter        |-> st.counter,
                             name_index_map |-> st.name_index_map,
                             vs             |-> st.vs], name)
    IN  [counter |-> reg.counter, name_index_map |-> reg.name_index_map,
         vs |-> reg.vs, tree |-> st.tree]

RECURSIVE tree_queue(_, _, _, _)
\* the loops of tree.NameSpace.space_add (positive) and space_sub: a path
\* that starts with '/' is queued as it is, any other as a subspace name
tree_queue(v, space_id, paths, positive) ==
    IF paths = <<>> THEN v
    ELSE LET pth == Head(paths)
             v1  == IF ~StartsWithSlash(pth)
                    THEN IF positive
                         THEN [v EXCEPT ![space_id + 1].subspaces_add =
                                           Append(@, pth)]
                         ELSE [v EXCEPT ![space_id + 1].subspaces_sub =
                                           Append(@, pth)]
                    ELSE IF positive
                         THEN [v EXCEPT ![space_id + 1].nodes_add =
                                           Append(@, pth)]
                         ELSE [v EXCEPT ![space_id + 1].nodes_sub =
                                           Append(@, pth)]
         IN  tree_queue(v1, space_id, Tail(paths), positive)

tree_space_add(st, s_name, paths) ==
    LET st1 == tree_space(st, s_name)
    IN  [st1 EXCEPT !.vs = tree_queue(@, st1.name_index_map[s_name],
                                      paths, TRUE)]

tree_space_sub(st, s_name, paths) ==
    LET st1 == tree_space(st, s_name)
    IN  [st1 EXCEPT !.vs = tree_queue(@, st1.name_index_map[s_name],
                                      paths, FALSE)]

RECURSIVE tree_space_test_all(_, _, _)
\* all(...) over the paths of tree.NameSpace.space_test
tree_space_test_all(t, space_id, paths) ==
    IF paths = <<>> THEN [tree |-> t, result |-> TRUE]
    ELSE LET t1 == tree_node_for_path(t, Head(paths))
         IN  IF space_id \in t1[NodeKey(Head(paths))]
             THEN tree_space_test_all(t1, space_id, Tail(paths))
             ELSE [tree |-> t1, result |-> FALSE]

\* the prototype after space_test, and the answer
tree_space_test(st, s_name, paths) ==
    LET st1 == tree_space(st, s_name)
        r   == tree_space_test_all(st1.tree, st1.name_index_map[s_name],
                                   paths)
    IN  [state |-> [st1 EXCEPT !.tree = r.tree], result |-> r.result]

RECURSIVE tree_mask_all(_, _, _, _)
\* the loops of _space_add_real (positive) and _space_sub_real of the
\* prototype over the nodes: the bit is turned on or off
tree_mask_all(t, space_id, paths, positive) ==
    IF paths = {} THEN t
    ELSE LET pth == CHOOSE q \in paths : TRUE
             t1  == tree_node_for_path(t, pth)
             t2  == [t1 EXCEPT ![NodeKey(pth)] =
                        IF positive THEN @ \cup {space_id}
                        ELSE @ \ {space_id}]
         IN  tree_mask_all(t2, space_id, paths \ {pth}, positive)

tree_space_add_real(st, space_id, paths) ==
    [st EXCEPT !.vs[space_id + 1].nodes = @ \cup paths,
               !.tree = tree_mask_all(@, space_id, paths, TRUE)]

tree_space_sub_real(st, space_id, paths) ==
    [st EXCEPT !.vs[space_id + 1].nodes = @ \ paths,
               !.tree = tree_mask_all(@, space_id, paths, FALSE)]

RECURSIVE tree_subspaces(_, _, _, _)
\* the loops over subspaces_add (positive) and subspaces_sub
tree_subspaces(st, space_id, names, positive) ==
    IF names = <<>> THEN st
    ELSE LET subspace_id == space_lookup(st.name_index_map, Head(names))
             st1 == IF subspace_id = -1 THEN st
                    ELSE IF positive
                    THEN tree_space_add_real(st, space_id,
                                             st.vs[subspace_id + 1].nodes)
                    ELSE tree_space_sub_real(st, space_id,
                                             st.vs[subspace_id + 1].nodes)
         IN  tree_subspaces(st1, space_id, Tail(names), positive)

RECURSIVE tree_update_spaces(_, _)
\* the loop of tree.NameSpace.space_update over topo_order
tree_update_spaces(st, topo_order) ==
    IF topo_order = <<>> THEN st
    ELSE LET space_id == Head(topo_order)
             space == st.vs[space_id + 1]
             st1 == tree_space_add_real(st, space_id, Range(space.nodes_add))
             st2 == tree_subspaces(st1, space_id, space.subspaces_add, TRUE)
             st3 == [st2 EXCEPT !.vs[space_id + 1].subspaces_add = <<>>,
                                !.vs[space_id + 1].nodes_add = <<>>]
             st4 == tree_space_sub_real(st3, space_id,
                                        Range(space.nodes_sub))
             st5 == tree_subspaces(st4, space_id, space.subspaces_sub, FALSE)
             st6 == [st5 EXCEPT !.vs[space_id + 1].subspaces_sub = <<>>,
                                !.vs[space_id + 1].nodes_sub = <<>>]
         IN  tree_update_spaces(st6, Tail(topo_order))

tree_space_update(st) ==
    LET topo_order == _build_topo(st.vs, st.name_index_map)
    IN  IF topo_order = CycleError THEN st
        ELSE tree_update_spaces(st, topo_order)

\* the prototype after the call c
tree_called(st, c) ==
    IF c.op = "space_add" THEN tree_space_add(st, c.s_name, c.paths)
    ELSE IF c.op = "space_sub" THEN tree_space_sub(st, c.s_name, c.paths)
    ELSE IF c.op = "space_test"
    THEN tree_space_test(st, c.s_name, c.paths).state
    ELSE tree_space_update(st)

RECURSIVE tree_after(_)
\* the prototype after the calls of the log
tree_after(calls) ==
    IF calls = <<>> THEN tree_NameSpace
    ELSE tree_called(tree_after(Front(calls)), Last(calls))

\* the answer of the prototype to the space_test call that is last in the
\* log
tree_answer(calls) ==
    tree_space_test(tree_after(Front(calls)), Last(calls).s_name,
                    Last(calls).paths).result

\* C39 as stated: on calls with literal absolute paths and bare subspace
\* names, every space_test call of namespace.NameSpace returns what the
\* same call returns from tree.NameSpace after the same calls.
C39_SameAnswersAsPrototype ==
    [][TestCalled => hist'[Len(hist')].result = tree_answer(hist')]_vars

\* C39 amended: the answers are the same for a probed path that carries
\* no negative bit of the space; for one that an applied exclusion gave
\* the negative bit namespace.NameSpace answers False, whatever the
\* prototype answers.
C39_SameAnswersUnlessExcluded ==
    [][TestCalled =>
        LET call == hist'[Len(hist')]
        IN  IF ExcludedIn(name_index_map', tree', call.s_name, call.paths[1])
            THEN call.result = FALSE
            ELSE call.result = tree_answer(hist')]_vars

\* '/a' was excluded from k, added again and probed: the prototype answers
\* True and namespace.NameSpace False
C39_Witness ==
    /\ NCalls = 5
    /\ hist[1] = Call("space_sub", "k", <<pA>>, "none", FALSE, FALSE)
    /\ hist[2].op = "space_update"
    /\ hist[3] = Call("space_add", "k", <<pA>>, "none", FALSE, FALSE)
    /\ hist[4].op = "space_update"
    /\ hist[5] = Call("space_test", "k", <<pA>>, "none", FALSE, FALSE)
    /\ tree_answer(hist) = TRUE
    /\ Excluded("k", pA)

====
